---- MODULE Spec2Model ----
(***************************************************************************)
(* Model of the food_run recipe import pipeline.                           *)
(*                                                                         *)
(*   src/server/recipeParser.ts   generic parser (JSON-LD + heading scan)  *)
(*   src/unnamed/part_001         parseRecipeFromUrl and the tuned rules   *)
(*                                                                         *)
(* Texts are TLA+ strings and are processed character by character, the    *)
(* way the regular expressions of the source process them.  JavaScript     *)
(* values are tagged records, so that values of different JavaScript       *)
(* types never compare as TLA+ values of different sorts.                  *)
(***************************************************************************)
EXTENDS Integers, Sequences, FiniteSets, TLC

(***************************************************************************)
(* JavaScript values                                                       *)
(***************************************************************************)
Null == [k |-> "null"]
Undef == [k |-> "undef"]
Str(s) == [k |-> "str", s |-> s]
NaN == [k |-> "nan"]
Inf(neg) == [k |-> "inf", neg |-> neg]
Arr(a) == [k |-> "arr", a |-> a]

RECURSIVE Pow10(_)
Pow10(n) == IF n <= 0 THEN 1 ELSE 10 * Pow10(n - 1)

\* a finite number m * 10^(-e), kept normalised: no trailing decimal zero
RECURSIVE Fin(_, _)
Fin(m, e) ==
    IF e > 0 /\ m % 10 = 0 THEN Fin(m \div 10, e - 1)
    ELSE [k |-> "fin", m |-> m, e |-> e]

IsNaN(v) == v.k = "nan"
IsStr(v) == v.k = "str"
IsArr(v) == v.k = "arr"
IsObj(v) == v.k = "obj"
\* the ?? operator: the left operand unless it is null or undefined
Nullish(v) == v.k \in {"null", "undef"}
Coalesce(a, b) == IF Nullish(a) THEN b ELSE a
\* a || b on strings
OrElse(a, b) == IF a # "" THEN a ELSE b

(***************************************************************************)
(* String primitives (String.prototype and the regular expressions used)   *)
(***************************************************************************)
Ch(s, i) == SubSeq(s, i, i)
From(s, i) == IF i > Len(s) THEN "" ELSE SubSeq(s, i, Len(s))
StartsAt(s, i, pat) ==
    /\ i + Len(pat) - 1 <= Len(s)
    /\ SubSeq(s, i, i + Len(pat) - 1) = pat
StartsWith(s, pat) == StartsAt(s, 1, pat)

\* least element of a set of positive integers, 0 for the empty set
MinOf(S) == IF S = {} THEN 0 ELSE CHOOSE a \in S : \A b \in S : a <= b

\* first index >= i where pat occurs in s, 0 when there is none
IndexFrom(s, i, pat) ==
    MinOf({j \in i..(Len(s) - Len(pat) + 1) : StartsAt(s, j, pat)})
Includes(s, pat) == IndexFrom(s, 1, pat) # 0

\* \s of the regular expressions, over the characters the texts use
IsSpace(c) == c \in {" ", "\t", "\n"}
IsDigit(c) == c \in {"0", "1", "2", "3", "4", "5", "6", "7", "8", "9"}

\* s.replace(/\s+/g, " ")
CollapseWs(s) ==
    LET RECURSIVE CollapseFrom(_, _)
        CollapseFrom(str, i) ==
            IF i > Len(str) THEN ""
            ELSE IF IsSpace(Ch(str, i))
                 THEN IF i > 1 /\ IsSpace(Ch(str, i - 1)) THEN CollapseFrom(str, i + 1)
                      ELSE " " \o CollapseFrom(str, i + 1)
                 ELSE Ch(str, i) \o CollapseFrom(str, i + 1)
    IN  CollapseFrom(s, 1)

\* s.trim()
Trim(s) ==
    LET RECURSIVE TrimRight(_)
        TrimRight(str) ==
            IF Len(str) > 0 /\ IsSpace(Ch(str, Len(str)))
            THEN TrimRight(SubSeq(str, 1, Len(str) - 1)) ELSE str
        RECURSIVE TrimLeft(_)
        TrimLeft(str) ==
            IF Len(str) > 0 /\ IsSpace(Ch(str, 1)) THEN TrimLeft(From(str, 2)) ELSE str
    IN  TrimRight(TrimLeft(s))

\* s.split(" "): "" splits into <<"">>
Split(s) ==
    LET RECURSIVE SplitFrom(_, _, _)
        SplitFrom(str, i, cur) ==
            IF i > Len(str) THEN <<cur>>
            ELSE IF Ch(str, i) = " " THEN <<cur>> \o SplitFrom(str, i + 1, "")
            ELSE SplitFrom(str, i + 1, cur \o Ch(str, i))
    IN  SplitFrom(s, 1, "")

RECURSIVE JoinSp(_)
\* parts.join(" ")
JoinSp(parts) ==
    IF Len(parts) = 0 THEN ""
    ELSE IF Len(parts) = 1 THEN parts[1]
    ELSE parts[1] \o " " \o JoinSp(Tail(parts))

LowerOf ==
    [c \in {"A", "B", "C", "D", "E", "F", "G", "H", "I", "J", "K", "L", "M",
            "N", "O", "P", "Q", "R", "S", "T", "U", "V", "W", "X", "Y", "Z"} |->
        CASE c = "A" -> "a" [] c = "B" -> "b" [] c = "C" -> "c" [] c = "D" -> "d"
          [] c = "E" -> "e" [] c = "F" -> "f" [] c = "G" -> "g" [] c = "H" -> "h"
          [] c = "I" -> "i" [] c = "J" -> "j" [] c = "K" -> "k" [] c = "L" -> "l"
          [] c = "M" -> "m" [] c = "N" -> "n" [] c = "O" -> "o" [] c = "P" -> "p"
          [] c = "Q" -> "q" [] c = "R" -> "r" [] c = "S" -> "s" [] c = "T" -> "t"
          [] c = "U" -> "u" [] c = "V" -> "v" [] c = "W" -> "w" [] c = "X" -> "x"
          [] c = "Y" -> "y" [] c = "Z" -> "z"]
LowerCh(c) == IF c \in DOMAIN LowerOf THEN LowerOf[c] ELSE c
\* s.toLowerCase()
ToLower(s) ==
    LET RECURSIVE LowerRange(_, _, _)
        \* the characters lo..hi of str in lower case, by halves
        LowerRange(str, lo, hi) ==
            IF lo > hi THEN ""
            ELSE IF lo = hi THEN LowerCh(Ch(str, lo))
            ELSE LET mid == (lo + hi) \div 2
                 IN  LowerRange(str, lo, mid) \o LowerRange(str, mid + 1, hi)
    IN  LowerRange(s, 1, Len(s))

RECURSIVE StripTagsFrom(_, _, _)
\* s.replace(/<[^>]+>/g, rep): a tag is "<", one or more non-">", then ">"
StripTagsFrom(s, i, rep) ==
    IF i > Len(s) THEN ""
    ELSE LET Tag(close) ==
                 IF Ch(s, i) = "<" /\ close > i + 1
                 THEN rep \o StripTagsFrom(s, close + 1, rep)
                 ELSE Ch(s, i) \o StripTagsFrom(s, i + 1, rep)
         IN  Tag(IndexFrom(s, i + 1, ">"))

(***************************************************************************)
(* Number(string) and Number.parseInt(string, 10)                          *)
(***************************************************************************)
HexOf ==
    [c \in {"0", "1", "2", "3", "4", "5", "6", "7", "8", "9",
            "a", "b", "c", "d", "e", "f"} |->
        CASE c = "0" -> 0 [] c = "1" -> 1 [] c = "2" -> 2 [] c = "3" -> 3
          [] c = "4" -> 4 [] c = "5" -> 5 [] c = "6" -> 6 [] c = "7" -> 7
          [] c = "8" -> 8 [] c = "9" -> 9 [] c = "a" -> 10 [] c = "b" -> 11
          [] c = "c" -> 12 [] c = "d" -> 13 [] c = "e" -> 14 [] c = "f" -> 15]

RECURSIVE DecVal(_, _)
\* value of a digit string, acc is the value read so far
DecVal(s, acc) ==
    IF Len(s) = 0 THEN acc ELSE DecVal(From(s, 2), acc * 10 + HexOf[Ch(s, 1)])

\* a decimal literal with an optional exponent part
UnsignedLiteral(s) ==
    LET RECURSIVE AllDigits(_)
        AllDigits(str) == Len(str) = 0 \/ (IsDigit(Ch(str, 1)) /\ AllDigits(From(str, 2)))
        \* digits [. digits] | . digits, without sign and without exponent
        UnsignedDecimal(str) ==
            LET Parts(ip, fp) ==
                    IF AllDigits(ip) /\ AllDigits(fp) /\ Len(ip) + Len(fp) > 0
                    THEN Fin(DecVal(ip \o fp, 0), Len(fp))
                    ELSE NaN
                At(dot) == Parts(IF dot = 0 THEN str ELSE SubSeq(str, 1, dot - 1),
                                 IF dot = 0 THEN "" ELSE From(str, dot + 1))
            IN  At(IndexFrom(str, 1, "."))
        Shift(m, sc) ==
            IF sc >= 0 THEN Fin(m.m, sc) ELSE Fin(m.m * Pow10(0 - sc), 0)
        By(m, eNeg, x) == Shift(m, IF eNeg THEN m.e + x ELSE m.e - x)
        Scaled(m, eNeg, eDig) ==
            IF IsNaN(m) \/ Len(eDig) = 0 \/ ~AllDigits(eDig) THEN NaN
            ELSE By(m, eNeg, DecVal(eDig, 0))
        Exponent(m, expo) ==
            Scaled(m, StartsWith(expo, "-"),
                   IF StartsWith(expo, "-") \/ StartsWith(expo, "+")
                   THEN From(expo, 2) ELSE expo)
        At(ePos) ==
            IF ePos = 0 THEN UnsignedDecimal(s)
            ELSE Exponent(UnsignedDecimal(SubSeq(s, 1, ePos - 1)),
                          From(s, ePos + 1))
    IN  IF s = "Infinity" THEN Inf(FALSE)
        ELSE At(IndexFrom(ToLower(s), 1, "e"))

\* Number(s): the StringNumericLiteral grammar
ToNumber(raw) ==
    LET \* value of a hexadecimal digit, -1 for any other character
        HexVal(ch) == IF LowerCh(ch) \in DOMAIN HexOf THEN HexOf[LowerCh(ch)] ELSE 0 - 1
        RECURSIVE HexAcc(_, _)
        HexAcc(str, acc) ==
            IF Len(str) = 0 THEN acc ELSE HexAcc(From(str, 2), acc * 16 + HexVal(Ch(str, 1)))
        RECURSIVE AllHex(_)
        AllHex(str) == Len(str) = 0 \/ (HexVal(Ch(str, 1)) >= 0 /\ AllHex(From(str, 2)))
        Signed(s, neg) ==
            LET Abs(v) == IF neg /\ v.k = "fin" THEN Fin(0 - v.m, v.e)
                          ELSE IF neg /\ v.k = "inf" THEN Inf(~v.neg)
                          ELSE v
            IN  Abs(UnsignedLiteral(s))
        Of(s) ==
            IF s = "" THEN Fin(0, 0)
            ELSE IF StartsWith(ToLower(s), "0x")
                 THEN IF Len(s) > 2 /\ AllHex(From(s, 3))
                      THEN Fin(HexAcc(From(s, 3), 0), 0) ELSE NaN
            ELSE Signed(IF StartsWith(s, "-") \/ StartsWith(s, "+")
                        THEN From(s, 2) ELSE s,
                        StartsWith(s, "-"))
    IN  Of(Trim(raw))

\* Number.parseInt(s, 10) of a string of digits (a (\d+) capture)
ParseIntDigits(s) == Fin(DecVal(s, 0), 0)

RECURSIVE DigitRunEnd(_, _)
\* index of the last digit of the run of digits that starts at i
DigitRunEnd(s, i) ==
    IF i + 1 <= Len(s) /\ IsDigit(Ch(s, i + 1)) THEN DigitRunEnd(s, i + 1) ELSE i

\* index of the first digit at or after i, 0 when there is none
FirstDigitFrom(s, i) == MinOf({j \in i..Len(s) : IsDigit(Ch(s, j))})

\* s.match(/(\d+)/): the first run of digits, "" when there is none
FirstDigits(s) ==
    LET Run(i) == IF i = 0 THEN "" ELSE SubSeq(s, i, DigitRunEnd(s, i))
    IN  Run(FirstDigitFrom(s, 1))

(***************************************************************************)
(* recipeParser.ts: text normaliser and ingredient line tokenizer          *)
(***************************************************************************)
decodeHtmlEntities(raw) ==
    LET \* txt.replace(/pat/g, rep) for a literal pattern
        ReplaceAll(txt, pat, rep) ==
            LET RECURSIVE ReplaceFrom(_, _, _, _)
                ReplaceFrom(str, i, p, r) ==
                    IF i > Len(str) THEN ""
                    ELSE IF StartsAt(str, i, p) THEN r \o ReplaceFrom(str, i + Len(p), p, r)
                    ELSE Ch(str, i) \o ReplaceFrom(str, i + 1, p, r)
            IN  ReplaceFrom(txt, 1, pat, rep)
    IN
    Trim(CollapseWs(
        ReplaceAll(ReplaceAll(ReplaceAll(ReplaceAll(ReplaceAll(ReplaceAll(raw,
            "&amp;", "&"), "&lt;", "<"), "&gt;", ">"), "&quot;", "\""),
            "&#39;", "'"), "&nbsp;", " ")))

RECURSIVE KeepNumeric(_)
\* token.replace(/[^\d./]/g, "")
KeepNumeric(s) ==
    IF Len(s) = 0 THEN ""
    ELSE IF IsDigit(Ch(s, 1)) \/ Ch(s, 1) \in {".", "/"}
         THEN Ch(s, 1) \o KeepNumeric(From(s, 2))
         ELSE KeepNumeric(From(s, 2))

Ingredient(name, amount, unit, notes) ==
    [name |-> name, amount |-> amount, unit |-> unit, notes |-> notes]

parseIngredientLine(raw) ==
    LET Tokens(text, parts, numericToken, maybeAmount) ==
            IF text = "" THEN Ingredient(text, Null, Null, Null)
            ELSE IF ~IsNaN(maybeAmount) /\ FirstDigitFrom(numericToken, 1) # 0
                 THEN IF Len(parts) >= 3
                      THEN Ingredient(JoinSp(SubSeq(parts, 3, Len(parts))),
                                      maybeAmount, Str(parts[2]), Null)
                      ELSE Ingredient(JoinSp(Tail(parts)), maybeAmount,
                                      Null, Null)
            ELSE Ingredient(text, Null, Null, Null)
        Numeric(text, parts, numericToken) ==
            Tokens(text, parts, numericToken, ToNumber(numericToken))
        Parts(text, parts) == Numeric(text, parts, KeepNumeric(parts[1]))
        Text(text) == Parts(text, Split(text))
    IN  Text(Trim(CollapseWs(decodeHtmlEntities(raw))))

(***************************************************************************)
(* part_001 (recipe scraper): the tokenizer of the tuned rules             *)
(***************************************************************************)
parseIngredientText(rawText) ==
    LET Tokens(text, parts, maybeAmount) ==
            IF ~IsNaN(maybeAmount)
            THEN IF Len(parts) >= 3
                 THEN Ingredient(JoinSp(SubSeq(parts, 3, Len(parts))),
                                 maybeAmount, Str(parts[2]), Undef)
                 ELSE Ingredient(JoinSp(Tail(parts)), maybeAmount, Null, Undef)
            ELSE Ingredient(text, Null, Null, Undef)
        Parts(text, parts) == Tokens(text, parts, ToNumber(parts[1]))
        Text(text) == Parts(text, Split(text))
    IN  Text(CollapseWs(Trim(rawText)))

(***************************************************************************)
(* Parsed JSON: objects are sequences of <<key, value>> pairs in source    *)
(* order (the order of Object.values)                                      *)
(***************************************************************************)
Obj(pairs) == [k |-> "obj", p |-> pairs]

\* record[key]
Get(o, key) ==
    LET RECURSIVE GetFrom(_, _, _)
        GetFrom(ps, i, k0) ==
            IF i > Len(ps) THEN Undef
            ELSE IF ps[i][1] = k0 THEN ps[i][2]
            ELSE GetFrom(ps, i + 1, k0)
    IN  GetFrom(o.p, 1, key)

RECURSIVE findRecipeNodes(_)
RECURSIVE findInItems(_, _)
RECURSIVE findInValues(_, _)
\* the Recipe-typed objects under node, an enclosing object before its parts
findRecipeNodes(node) ==
    LET IsRecipeType(typeValue) ==
            IF IsStr(typeValue) THEN ToLower(typeValue.s) = "recipe"
            ELSE IF IsArr(typeValue)
                 THEN \E i \in 1..Len(typeValue.a) :
                          /\ IsStr(typeValue.a[i])
                          /\ ToLower(typeValue.a[i].s) = "recipe"
            ELSE FALSE
        \* !node of JavaScript
        Falsy(v) ==
            \/ v.k \in {"null", "undef", "nan"}
            \/ (v.k = "str" /\ v.s = "")
            \/ (v.k = "fin" /\ v.m = 0)
            \/ (v.k = "bool" /\ ~v.b)
    IN
    IF Falsy(node) \/ ~(IsArr(node) \/ IsObj(node)) THEN <<>>
    ELSE IF IsArr(node) THEN findInItems(node.a, 1)
    ELSE (IF IsRecipeType(Get(node, "@type")) THEN <<node>> ELSE <<>>)
             \o findInValues(node.p, 1)
findInItems(items, i) ==
    IF i > Len(items) THEN <<>>
    ELSE findRecipeNodes(items[i]) \o findInItems(items, i + 1)
findInValues(pairs, i) ==
    IF i > Len(pairs) THEN <<>>
    ELSE findRecipeNodes(pairs[i][2]) \o findInValues(pairs, i + 1)

(***************************************************************************)
(* The text of a script block: top-level chunks, each the text of one JSON *)
(* value or malformed text, with a separator ("", " " or ",") before every *)
(* chunk but the first.  JSON.parse accepts exactly one well-formed chunk. *)
(***************************************************************************)
Garbage == [k |-> "garbage"]
JsonText(chunks, seps) == [chunks |-> chunks, seps |-> seps]

WellFormed(chunks) == \A i \in 1..Len(chunks) : chunks[i] # Garbage

\* JSON.parse(rawJson): <<TRUE, value>> or <<FALSE, Undef>> when it throws
StrictParse(t) ==
    IF Len(t.chunks) = 1 /\ WellFormed(t.chunks)
    THEN <<TRUE, t.chunks[1]>> ELSE <<FALSE, Undef>>

\* a variant without the repair: the separators stay as they are
KeepSeps(t) == t.seps

\* rawJson.replace(/}\s*{/g, "},{"): a comma appears between two chunks
\* when the left one ends with "}", the right one starts with "{" and only
\* white space is between them
RepairSeps(t) ==
    [i \in 1..Len(t.seps) |->
        IF /\ t.seps[i] \in {"", " "}
           /\ IsObj(t.chunks[i]) /\ IsObj(t.chunks[i + 1])
        THEN "," ELSE t.seps[i]]

\* JSON.parse("[" + repaired + "]")
RepairParse(t) ==
    LET Parse(seps) ==
            IF /\ Len(t.chunks) >= 1
               /\ WellFormed(t.chunks)
               /\ \A i \in 1..Len(seps) : seps[i] = ","
            THEN <<TRUE, Arr(t.chunks)>> ELSE <<FALSE, Undef>>
    IN  Parse(RepairSeps(t))

\* the candidates of one script block (lines 192-206)
BlockCandidates(t) ==
    LET Try(strict, fixed) ==
            IF strict[1] THEN <<strict[2]>>
            ELSE IF fixed[1] THEN <<fixed[2]>>
            ELSE <<>>
    IN  Try(StrictParse(t), RepairParse(t))

\* the Recipe nodes one script block adds to allRecipeNodes
BlockRecipeNodes(t) ==
    IF Len(t.chunks) = 0 THEN <<>>
    ELSE LET Nodes(candidates) ==
                 IF Len(candidates) = 0 THEN <<>>
                 ELSE findRecipeNodes(candidates[1])
         IN  Nodes(BlockCandidates(t))

\* extractServings(value)
extractServings(value) ==
    LET Match(digits) == IF digits = "" THEN Null ELSE ParseIntDigits(digits)
    IN  IF value.k \in {"fin", "inf", "nan"} THEN value
        ELSE IF IsStr(value) THEN Match(FirstDigits(value.s))
        ELSE Null

\* the text of one recipeIngredient entry, "" when it has none (lines 243-256)
IngredientEntryText(item) ==
    IF IsStr(item) THEN item.s
    ELSE IF IsObj(item)
         THEN IF IsStr(Get(item, "text")) THEN Get(item, "text").s
              ELSE IF IsStr(Get(item, "name")) THEN Get(item, "name").s
              ELSE ""
    ELSE ""

\* lines.map(parseIngredientLine)
normalizeIngredients(lines) ==
    [i \in 1..Len(lines) |-> parseIngredientLine(lines[i])]

(***************************************************************************)
(* Markup.  A document is the sequence of its elements in document order;  *)
(* script, meta and title elements belong to the head, the others are      *)
(* siblings in the body.  inner is the raw inner markup of an element.     *)
(***************************************************************************)
Ld(t) == [k |-> "ld", t |-> t]
H(level, inner) == [k |-> "h", level |-> level, inner |-> inner]
List(tag, cls, items) == [k |-> "list", tag |-> tag, cls |-> cls, items |-> items]
Box(tag, cls, inner) == [k |-> "box", tag |-> tag, cls |-> cls, inner |-> inner]

IsBody(n) == n.k \in {"h", "list", "box", "input"}

RECURSIVE NatStr(_)
NatStr(n) ==
    IF n < 10 THEN Ch("0123456789", n + 1)
    ELSE NatStr(n \div 10) \o Ch("0123456789", (n % 10) + 1)

\* String(number) of a finite number
FinStr(v) ==
    LET RECURSIVE PadFrac(_, _)
        PadFrac(str, width) == IF Len(str) >= width THEN str ELSE PadFrac("0" \o str, width)
        abs == IF v.m < 0 THEN 0 - v.m ELSE v.m
        sign == IF v.m < 0 THEN "-" ELSE ""
    IN  IF v.e = 0 THEN sign \o NatStr(abs)
        ELSE sign \o NatStr(abs \div Pow10(v.e)) \o "."
                  \o PadFrac(NatStr(abs % Pow10(v.e)), v.e)

RECURSIVE Stringify(_)
RECURSIVE StringifyItems(_, _)
RECURSIVE StringifyPairs(_, _)
\* the JSON text of a value
Stringify(v) ==
    IF v.k = "str" THEN "\"" \o v.s \o "\""
    ELSE IF v.k = "fin" THEN FinStr(v)
    ELSE IF v.k = "bool" THEN (IF v.b THEN "true" ELSE "false")
    ELSE IF v.k = "arr" THEN "[" \o StringifyItems(v.a, 1) \o "]"
    ELSE IF v.k = "obj" THEN "{" \o StringifyPairs(v.p, 1) \o "}"
    ELSE IF v.k = "garbage" THEN "{\"@type\":"
    ELSE "null"
StringifyItems(items, i) ==
    IF i > Len(items) THEN ""
    ELSE (IF i > 1 THEN "," ELSE "") \o Stringify(items[i])
             \o StringifyItems(items, i + 1)
StringifyPairs(pairs, i) ==
    IF i > Len(pairs) THEN ""
    ELSE (IF i > 1 THEN "," ELSE "") \o "\"" \o pairs[i][1] \o "\":"
             \o Stringify(pairs[i][2]) \o StringifyPairs(pairs, i + 1)

extractTitleFromHtml(doc) ==
    LET Matches(og, ti) ==
            decodeHtmlEntities(
                IF og # 0 THEN doc[og].content
                ELSE IF ti # 0 THEN doc[ti].inner
                ELSE "")
    \* the og:title pattern needs a content of one or more characters
    IN  Matches(MinOf({j \in 1..Len(doc) : doc[j].k = "og" /\ doc[j].content # ""}),
                MinOf({j \in 1..Len(doc) : doc[j].k = "title"}))

extractServingsFromHtml(doc) ==
    LET \* the markup of one element
        Render(nd) ==
            LET Attr(name, value) == IF value = "" THEN "" ELSE " " \o name \o "=\"" \o value \o "\""
                RECURSIVE RenderItems(_, _)
                RenderItems(items, i) ==
                    IF i > Len(items) THEN ""
                    ELSE "<li>" \o items[i] \o "</li>" \o RenderItems(items, i + 1)
                RECURSIVE ScriptText(_, _)
                ScriptText(t, i) ==
                    IF i > Len(t.chunks) THEN ""
                    ELSE (IF i > 1 THEN t.seps[i - 1] ELSE "") \o Stringify(t.chunks[i])
                             \o ScriptText(t, i + 1)
            IN
            IF nd.k = "ld"
            THEN "<script type=\"application/ld+json\">" \o ScriptText(nd.t, 1) \o "</script>"
            ELSE IF nd.k = "og"
            THEN "<meta property=\"og:title\" content=\"" \o nd.content \o "\">"
            ELSE IF nd.k = "title" THEN "<title>" \o nd.inner \o "</title>"
            ELSE IF nd.k = "h"
            THEN "<h" \o NatStr(nd.level) \o ">" \o nd.inner \o "</h" \o NatStr(nd.level) \o ">"
            ELSE IF nd.k = "list"
            THEN "<" \o nd.tag \o Attr("class", nd.cls) \o ">" \o RenderItems(nd.items, 1)
                     \o "</" \o nd.tag \o ">"
            ELSE IF nd.k = "box"
            THEN "<" \o nd.tag \o Attr("class", nd.cls) \o ">" \o nd.inner \o "</" \o nd.tag \o ">"
            ELSE "<input" \o Attr("id", nd.id) \o Attr("value", nd.value) \o ">"
        RECURSIVE Markup(_, _)
        \* the markup text of a document (the html string of the source)
        Markup(d0, n1) ==
            IF n1 > Len(d0) THEN "" ELSE Render(d0[n1]) \o Markup(d0, n1 + 1)
        RECURSIVE ServingsMatch(_, _)
        \* lw.match(/(\d+)[^0-9]{0,10}servings?/)
        ServingsMatch(lw, n0) ==
            LET \* after the digits ending at e: at most gap non-digits, then "serving"
                ServingFollows(low, e, gap) ==
                    \E g \in 0..gap :
                        /\ StartsAt(low, e + g + 1, "serving")
                        /\ \A j \in (e + 1)..(e + g) : ~IsDigit(Ch(low, j))
                Run(d, r) ==
                    IF ServingFollows(lw, r, 10) THEN SubSeq(lw, d, r)
                    ELSE ServingsMatch(lw, d + 1)
                Digits(d) == IF d = 0 THEN "" ELSE Run(d, DigitRunEnd(lw, d))
            IN  Digits(FirstDigitFrom(lw, n0))
        RECURSIVE ServesMatch(_, _)
        \* low.match(/serves[^0-9]{0,20}(\d+)/): the captured digits, "" if none
        ServesMatch(low, n) ==
            LET Digits(p, d) ==
                    IF d # 0 /\ d - (p + 6) <= 20
                    THEN SubSeq(low, d, DigitRunEnd(low, d))
                    ELSE ServesMatch(low, p + 1)
                Word(p) == IF p = 0 THEN "" ELSE Digits(p, FirstDigitFrom(low, p + 6))
            IN  Word(IndexFrom(low, n, "serves"))
        Match(m) == IF m = "" THEN Null ELSE ParseIntDigits(m)
        Serves(lower, m1) == Match(IF m1 # "" THEN m1 ELSE ServingsMatch(lower, 1))
        Lower(lower) == Serves(lower, ServesMatch(lower, 1))
    IN  Lower(ToLower(Markup(doc, 1)))

(***************************************************************************)
(* parseFromJsonLd                                                         *)
(***************************************************************************)
RECURSIVE AllRecipeNodesUntilFailure(_, _)
\* a scan that gives up at the first script block that cannot be parsed
AllRecipeNodesUntilFailure(doc, i) ==
    IF i > Len(doc) THEN <<>>
    ELSE IF doc[i].k = "ld" /\ BlockCandidates(doc[i].t) = <<>> THEN <<>>
    ELSE (IF doc[i].k = "ld" THEN BlockRecipeNodes(doc[i].t) ELSE <<>>)
             \o AllRecipeNodesUntilFailure(doc, i + 1)

RECURSIVE AllRecipeNodes(_, _)
\* the scan of the script blocks (lines 186-214)
AllRecipeNodes(doc, i) ==
    IF i > Len(doc) THEN <<>>
    ELSE (IF doc[i].k = "ld" THEN BlockRecipeNodes(doc[i].t) ELSE <<>>)
             \o AllRecipeNodes(doc, i + 1)

Returned(v) == [k |-> "return", v |-> v]
Thrown(error) == [k |-> "throw", error |-> error]

ParsedRecipe(title, servings, ingredients) ==
    [title |-> title, servings |-> servings, ingredients |-> ingredients]

\* parseFromJsonLd(html): Returned(Null), Returned(ParsedRecipe) or Thrown
parseFromJsonLd(doc) ==
    LET RECURSIVE IngredientStrings(_, _)
        IngredientStrings(its, n) ==
            IF n > Len(its) THEN <<>>
            ELSE (IF IsStr(its[n]) \/ IngredientEntryText(its[n]) # ""
                  THEN <<IngredientEntryText(its[n])>> ELSE <<>>)
                     \o IngredientStrings(its, n + 1)
        Fields(titleValue, yieldValue, rawIngredients) ==
            \* decodeHtmlEntities(titleValue) calls titleValue.replace
            IF ~IsStr(titleValue) THEN Thrown("TypeError")
            ELSE Returned(ParsedRecipe(
                     decodeHtmlEntities(titleValue.s),
                     extractServings(yieldValue),
                     normalizeIngredients(
                         IF IsArr(rawIngredients)
                         THEN IngredientStrings(rawIngredients.a, 1)
                         ELSE <<>>)))
        Primary(primary) ==
            Fields(Coalesce(Get(primary, "name"),
                   Coalesce(Get(primary, "headline"),
                   Coalesce(Get(primary, "alternateName"), Str("")))),
                   Coalesce(Get(primary, "recipeYield"),
                   Coalesce(Get(primary, "recipeServings"),
                   Coalesce(Get(primary, "yield"), Null))),
                   Coalesce(Get(primary, "recipeIngredient"),
                   Coalesce(Get(primary, "ingredients"), Arr(<<>>))))
        Nodes(allRecipeNodes) ==
            IF Len(allRecipeNodes) = 0 THEN Returned(Null)
            ELSE Primary(allRecipeNodes[1])
    IN  Nodes(AllRecipeNodes(doc, 1))

(***************************************************************************)
(* parseFromIngredientsSection                                             *)
(***************************************************************************)
\* text of a heading or list item as the regular-expression parser reads it
InnerText(inner) == decodeHtmlEntities(CollapseWs(StripTagsFrom(inner, 1, " ")))

RECURSIVE FirstIngredientsHeading(_, _, _)
\* a variant that keeps the first heading that mentions "ingredient"
FirstIngredientsHeading(doc, i, last) ==
    IF i > Len(doc) THEN last
    ELSE FirstIngredientsHeading(doc, i + 1,
             IF /\ last = 0
                /\ doc[i].k = "h"
                /\ Includes(ToLower(InnerText(doc[i].inner)), "ingredient")
             THEN i ELSE last)

RECURSIVE LastIngredientsHeading(_, _, _)
\* index of the last heading whose text mentions "ingredient", 0 when none
LastIngredientsHeading(doc, i, last) ==
    IF i > Len(doc) THEN last
    ELSE LastIngredientsHeading(doc, i + 1,
             IF doc[i].k = "h"
                /\ Includes(ToLower(InnerText(doc[i].inner)), "ingredient")
             THEN i ELSE last)

IsStopText(text) ==
    \E word \in {"direction", "instruction", "method", "step"} :
        Includes(text, word)

\* a variant that never finds a stop heading
NoStopHeading(doc, i) == Len(doc) + 1

RECURSIVE FirstStopHeading(_, _)
\* index of the first stop heading at or after i, Len(doc) + 1 when none
FirstStopHeading(doc, i) ==
    IF i > Len(doc) THEN Len(doc) + 1
    ELSE IF doc[i].k = "h" /\ IsStopText(ToLower(InnerText(doc[i].inner))) THEN i
    ELSE FirstStopHeading(doc, i + 1)

\* the noise filter (lines 345-355): TRUE when the line is kept
KeepLine(line) ==
    LET Keep(lower) ==
            /\ ~Includes(lower, "nutrition information")
            /\ ~StartsWith(lower, "per serving")
            /\ ~StartsWith(lower, "note:")
            /\ ~Includes(lower, "calories")
            /\ ~(Includes(lower, "fat ") /\ Includes(lower, "protein"))
    IN  Keep(ToLower(line))

parseFromIngredientsSection(doc) ==
    LET RECURSIVE SectionItems(_, _, _)
        \* the list items of the elements n1 .. l0
        SectionItems(d0, n1, l0) ==
            LET RECURSIVE ItemTexts(_, _)
                \* the non-empty texts of the its of one list
                ItemTexts(its, n) ==
                    IF n > Len(its) THEN <<>>
                    ELSE SelectSeq(<<InnerText(its[n])>>, LAMBDA text : text # "")
                             \o ItemTexts(its, n + 1)
            IN
            IF n1 > l0 THEN <<>>
            ELSE (IF d0[n1].k = "list" THEN ItemTexts(d0[n1].items, 1) ELSE <<>>)
                     \o SectionItems(d0, n1 + 1, l0)
        Section(hd) ==
            IF hd = 0 THEN <<>>
            ELSE SelectSeq(SectionItems(doc, hd + 1,
                                        FirstStopHeading(doc, hd + 1) - 1),
                           KeepLine)
    IN  Section(LastIngredientsHeading(doc, 1, 0))

(***************************************************************************)
(* tweakNewsletterTitle and parseRecipeHtml                                *)
(***************************************************************************)

tweakNewsletterTitle(domain, doc, currentTitle) ==
    LET RECURSIVE H1Texts(_, _)
        H1Texts(d0, n) ==
            IF n > Len(d0) THEN <<>>
            ELSE (IF d0[n].k = "h" /\ d0[n].level = 1
                  THEN SelectSeq(<<InnerText(d0[n].inner)>>, LAMBDA text : text # "")
                  ELSE <<>>)
                     \o H1Texts(d0, n + 1)
        IsBanner(t0) == Includes(ToLower(t0), "get notified about new recipes")
        Alt(h1Texts, notBanner) ==
            IF Len(notBanner) > 0 THEN notBanner[1]
            ELSE IF Len(h1Texts) >= 2 THEN h1Texts[2]
            ELSE ""
        Texts(h1Texts) ==
            Alt(h1Texts, SelectSeq(h1Texts, LAMBDA t : ~IsBanner(t)))
    IN  IF domain # "joshuaweissman.com" \/ ~IsBanner(currentTitle)
        THEN currentTitle
        ELSE OrElse(Texts(H1Texts(doc, 1)), currentTitle)

\* a validation that only rejects the empty string
UrlIsNotEmpty(url) == Trim(url) # ""

\* position of the "://" that ends the scheme, 0 when there is none
SchemeEnd(url) == IndexFrom(url, 1, "://")
\* new URL(url) does not throw (lines 346-351)
UrlIsValid(url) ==
    LET Rest(rest) == Len(rest) > 0 /\ ~StartsWith(rest, "/")
        Scheme(u, se) ==
            /\ se > 1
            /\ ~Includes(SubSeq(u, 1, se - 1), " ")
            /\ Rest(From(u, se + 3))
        Trimmed(u) == Scheme(u, SchemeEnd(u))
    IN  Trimmed(Trim(url))
\* new URL(url).hostname, in lower case
Hostname(url) ==
    LET Host(rest, slash) ==
            ToLower(IF slash = 0 THEN rest ELSE SubSeq(rest, 1, slash - 1))
        Rest(rest) == Host(rest, IndexFrom(rest, 1, "/"))
        Trimmed(u) == Rest(From(u, SchemeEnd(u) + 3))
    IN  Trimmed(Trim(url))

\* the domain of parseRecipeHtml (lines 413-421): "" when new URL throws
DomainOf(url) ==
    LET Strip(hostname) ==
            IF StartsWith(hostname, "www.") THEN From(hostname, 5) ELSE hostname
    IN  IF ~UrlIsValid(url) THEN "" ELSE Strip(Hostname(url))

\* the structured-data branch of parseRecipeHtml (lines 423-441)
JsonLdResult(url, doc, fromJsonLd) ==
    ParsedRecipe(
        tweakNewsletterTitle(DomainOf(url), doc,
            OrElse(fromJsonLd.title, OrElse(extractTitleFromHtml(doc), url))),
        IF fromJsonLd.servings # Null THEN fromJsonLd.servings
        ELSE extractServingsFromHtml(doc),
        fromJsonLd.ingredients)

\* the heading-section branch of parseRecipeHtml (lines 443-460)
SectionResult(url, doc) ==
    ParsedRecipe(
        tweakNewsletterTitle(DomainOf(url), doc,
            OrElse(extractTitleFromHtml(doc), url)),
        extractServingsFromHtml(doc),
        normalizeIngredients(parseFromIngredientsSection(doc)))

UsesJsonLd(fromJsonLd) ==
    fromJsonLd.k = "return" /\ fromJsonLd.v # Null /\ Len(fromJsonLd.v.ingredients) > 0

(***************************************************************************)
(* part_001: the cheerio view of the document                              *)
(***************************************************************************)

\* the entities the texts use, each with the character it stands for
Entities == <<<<"&amp;", "&">>, <<"&lt;", "<">>, <<"&gt;", ">">>,
              <<"&quot;", "\"">>, <<"&#39;", "'">>, <<"&nbsp;", " ">>>>

\* $(el).text() of an element with the given inner markup
CheerioText(inner) ==
    LET RECURSIVE DecodeOnceFrom(_, _)
        \* one pass of entity decoding; a non-breaking space reads as white space
        DecodeOnceFrom(str, n) ==
            LET Entity(e) ==
                    IF e = 0 THEN Ch(str, n) \o DecodeOnceFrom(str, n + 1)
                    ELSE Entities[e][2] \o DecodeOnceFrom(str, n + Len(Entities[e][1]))
            IN  IF n > Len(str) THEN ""
                ELSE Entity(MinOf({e \in 1..Len(Entities) : StartsAt(str, n, Entities[e][1])}))
    IN  DecodeOnceFrom(StripTagsFrom(inner, 1, ""), 1)

\* $(el).text() of a body element
ElemText(n) ==
    LET RECURSIVE ItemsText(_, _)
        ItemsText(items, i) ==
            IF i > Len(items) THEN "" ELSE CheerioText(items[i]) \o ItemsText(items, i + 1)
    IN
    IF n.k \in {"h", "box"} THEN CheerioText(n.inner)
    ELSE IF n.k = "list" THEN ItemsText(n.items, 1)
    ELSE ""

\* a variant that returns the text of the first h1 even when there is none
getCleanTextUnchecked(doc) ==
    LET First(i) == Str(IF i = 0 THEN "" ELSE Trim(CheerioText(doc[i].inner)))
    IN  First(MinOf({j \in 1..Len(doc) : doc[j].k = "h" /\ doc[j].level = 1}))

\* getCleanText($, "h1"): Str(text) or Null
getCleanText(doc) ==
    LET Clean(text) == IF Len(text) > 0 THEN Str(text) ELSE Null
        First(i) == Clean(IF i = 0 THEN "" ELSE Trim(CheerioText(doc[i].inner)))
    IN  First(MinOf({j \in 1..Len(doc) : doc[j].k = "h" /\ doc[j].level = 1}))

TitleSentinel == "Imported recipe (title not found)"

Preview(title, sourceUrl, servings, ingredients) ==
    [title |-> title, sourceUrl |-> sourceUrl, servings |-> servings,
     ingredients |-> ingredients]

RECURSIVE TextItems(_, _)
\* the li loop of the tuned rules: trimmed text, empty items skipped
TextItems(items, i) ==
    LET Item(text) ==
            IF Len(text) = 0 THEN <<>> ELSE <<parseIngredientText(text)>>
    IN  IF i > Len(items) THEN <<>>
        ELSE Item(Trim(CheerioText(items[i]))) \o TextItems(items, i + 1)

RECURSIVE HeadingLists(_, _, _)
\* $("h2, h3").each: for every heading that mentions "ingredient", the items
\* of the first following sibling list with one of the tags
HeadingLists(doc, i, tags) ==
    IF i > Len(doc) THEN <<>>
    ELSE LET Items(list) ==
                 IF list = 0 THEN <<>> ELSE TextItems(doc[list].items, 1)
         IN  (IF /\ doc[i].k = "h"
                 /\ doc[i].level \in {2, 3}
                 /\ Includes(ToLower(CheerioText(doc[i].inner)), "ingredient")
              THEN Items(MinOf({j \in (i + 1)..Len(doc) :
                             doc[j].k = "list" /\ doc[j].tag \in tags}))
              ELSE <<>>)
                 \o HeadingLists(doc, i + 1, tags)

RECURSIVE LabelServings(_, _, _, _)
\* the servings loop of parseSimplyRecipes / parseDelish: the last label wins
LabelServings(doc, i, tags, servings) ==
    IF i > Len(doc) THEN servings
    ELSE LET Match(digits) == IF digits = "" THEN servings ELSE ToNumber(digits)
             Label(label) ==
                 IF Includes(label, "serves") \/ Includes(label, "servings")
                 THEN Match(FirstDigits(label)) ELSE servings
         IN  LabelServings(doc, i + 1, tags,
                 IF doc[i].k = "box" /\ doc[i].tag \in tags
                 THEN Label(ToLower(ElemText(doc[i]))) ELSE servings)

parseAllRecipes(doc, url) ==
    LET \* servingsText of parseAllRecipes (lines 83-94)
        AllRecipesServingsText(d2) ==
            LET Detail(n2) ==
                    IF n2 = 0 THEN "" ELSE Trim(CheerioText(d2[n2].inner))
                First(first) ==
                    IF first # 0 /\ d2[first].k = "input" /\ d2[first].value # ""
                    THEN d2[first].value
                    ELSE Detail(MinOf({n2 \in 2..Len(d2) :
                             /\ d2[n2].k = "box" /\ d2[n2].tag = "div"
                             /\ d2[n2].cls = "mntl-recipe-details__value"
                             /\ IsBody(d2[n2 - 1])
                             /\ Includes(ToLower(ElemText(d2[n2 - 1])), "servings")}))
            IN  First(MinOf({j \in 1..Len(d2) :
                          \/ (d2[j].k = "box" /\ d2[j].tag = "div"
                                 /\ d2[j].cls = "recipe-adjust-servings__size")
                          \/ (d2[j].k = "input" /\ d2[j].id = "servings")}))
        RECURSIVE ClassItems(_, _, _, _)
        \* $("ul.cls li").each and $("span.cls").each: the texts of the li elements
        \* of the lists, or of the span elements, of the class
        ClassItems(d1, n1, tag, cls) ==
            IF n1 > Len(d1) THEN <<>>
            ELSE (IF d1[n1].k = "list" /\ d1[n1].tag = tag /\ d1[n1].cls = cls
                  THEN d1[n1].items
                  ELSE IF d1[n1].k = "box" /\ d1[n1].tag = tag /\ d1[n1].cls = cls
                  THEN <<d1[n1].inner>>
                  ELSE <<>>)
                     \o ClassItems(d1, n1 + 1, tag, cls)
        Servings(maybeServings) ==
            IF IsNaN(maybeServings) THEN Null ELSE maybeServings
        Text(servingsText) ==
            IF servingsText = "" THEN Null ELSE Servings(ToNumber(servingsText))
        Lines(modern) ==
            IF Len(modern) > 0 THEN modern
            ELSE ClassItems(doc, 1, "span", "ingredients-item-name")
    IN  Preview(Coalesce(getCleanText(doc), Str(TitleSentinel)).s,
                url,
                Text(AllRecipesServingsText(doc)),
                TextItems(
                    Lines(ClassItems(doc, 1, "ul",
                                     "mntl-structured-ingredients__list")),
                    1))

parseSimplyRecipes(doc, url) ==
    Preview(Coalesce(getCleanText(doc), Str(TitleSentinel)).s,
            url,
            LabelServings(doc, 1, {"div"}, Null),
            HeadingLists(doc, 1, {"ul"}))

parseDelish(doc, url) ==
    Preview(Coalesce(getCleanText(doc), Str(TitleSentinel)).s,
            url,
            LabelServings(doc, 1, {"div", "span", "p"}, Null),
            HeadingLists(doc, 1, {"ul"}))

\* first index >= i of a character that is not white space
SkipSpaces(s, i) ==
    LET Skip(j) == IF j = 0 THEN Len(s) + 1 ELSE j
    IN  Skip(MinOf({j \in i..Len(s) : ~IsSpace(Ch(s, j))}))

parseJoshuaWeissman(doc, url, fallbackTitle, fallbackServings) ==
    LET RECURSIVE SiblingItems(_, _)
        \* .nextAll().each: the items of the following siblings up to a stop heading
        SiblingItems(d3, n3) ==
            IF n3 > Len(d3) THEN <<>>
            ELSE IF d3[n3].k = "h" /\ IsStopText(ToLower(CheerioText(d3[n3].inner))) THEN <<>>
            ELSE (IF d3[n3].k = "list" THEN d3[n3].items ELSE <<>>)
                     \o SiblingItems(d3, n3 + 1)
        RECURSIVE LastHeadingWith(_, _, _)
        \* headings.forEach: index of the last heading that mentions "ingredient"
        LastHeadingWith(d2, n2, last) ==
            IF n2 > Len(d2) THEN last
            ELSE LastHeadingWith(d2, n2 + 1,
                     IF d2[n2].k = "h"
                        /\ Includes(ToLower(CheerioText(d2[n2].inner)), "ingredient")
                     THEN n2 ELSE last)
        RECURSIVE DigitsThenServing(_, _)
        \* text.match(/(\d+)\s+servings?/)
        DigitsThenServing(text, i) ==
            LET Spaces(d, r, w) ==
                    IF w > r + 1 /\ StartsAt(text, w, "serving") THEN SubSeq(text, d, r)
                    ELSE DigitsThenServing(text, d + 1)
                Run(d, r) == Spaces(d, r, SkipSpaces(text, r + 1))
                Digits(d) == IF d = 0 THEN "" ELSE Run(d, DigitRunEnd(text, d))
            IN  Digits(FirstDigitFrom(text, i))
        RECURSIVE WordThenDigits(_, _, _, _)
        \* text.match(/word\s+(\d+)/) (minSpaces = 1) or /word\s*(\d+)/ (0)
        WordThenDigits(text, i, word, minSpaces) ==
            LET Digits(p, q, d) ==
                    IF d - q >= minSpaces /\ d <= Len(text) /\ IsDigit(Ch(text, d))
                    THEN SubSeq(text, d, DigitRunEnd(text, d))
                    ELSE WordThenDigits(text, p + 1, word, minSpaces)
                Word(p) ==
                    IF p = 0 THEN ""
                    ELSE Digits(p, p + Len(word), SkipSpaces(text, p + Len(word)))
            IN  Word(IndexFrom(text, i, word))
        RECURSIVE BodyText(_, _)
        \* $("body").text()
        BodyText(d1, n1) ==
            IF n1 > Len(d1) THEN ""
            ELSE (IF IsBody(d1[n1]) THEN ElemText(d1[n1]) ELSE "") \o BodyText(d1, n1 + 1)
        Match(m) == IF m # "" THEN ParseIntDigits(m) ELSE fallbackServings
        Patterns(bodyText) ==
            Match(OrElse(WordThenDigits(bodyText, 1, "serves", 1),
                  OrElse(WordThenDigits(bodyText, 1, "serves:", 0),
                         DigitsThenServing(bodyText, 1))))
        Section(hd) == IF hd = 0 THEN <<>> ELSE SiblingItems(doc, hd + 1)
    IN  Preview(IF Len(Trim(fallbackTitle)) > 0 THEN fallbackTitle
                ELSE Coalesce(getCleanText(doc), Str(TitleSentinel)).s,
                url,
                Patterns(ToLower(BodyText(doc, 1))),
                TextItems(Section(LastHeadingWith(doc, 1, 0)), 1))

\* the best-effort parser for unknown sites (lines 430-457)
FinalScan(doc, url, fallbackTitle, fallbackServings) ==
    Preview(Coalesce(getCleanText(doc), Str(fallbackTitle)).s,
            url,
            fallbackServings,
            HeadingLists(doc, 1, {"ul", "ol"}))

TunedDomains == <<"allrecipes.com", "simplyrecipes.com", "delish.com",
                  "joshuaweissman.com">>

\* the tuned rule chosen for a host name (lines 409-428), 0 when none
TunedRule(hostname) ==
    MinOf({i \in 1..Len(TunedDomains) : Includes(hostname, TunedDomains[i])})

RunRule(rule, doc, url, fallbackTitle, fallbackServings) ==
    IF rule = 1 THEN parseAllRecipes(doc, url)
    ELSE IF rule = 2 THEN parseSimplyRecipes(doc, url)
    ELSE IF rule = 3 THEN parseDelish(doc, url)
    ELSE parseJoshuaWeissman(doc, url, fallbackTitle, fallbackServings)

(***************************************************************************)
(* Inputs of the model: source URLs, the pages the fetch may return and    *)
(* the ingredient lines given to the tokenizers                            *)
(***************************************************************************)
MaxBlocks == 2
MaxTokens == 3

BadUrls == {"not a url", "example.com/chili"}

Statuses == {200, 404}

rChili == Obj(<< <<"@type", Str("Recipe")>>,
                 <<"name", Str("Keto Chili")>>,
                 <<"recipeYield", Str("6")>>,
                 <<"recipeIngredient",
                   Arr(<<Str("2 lbs ground beef"), Str("1 onion")>>)>> >>)
rOdd == Obj(<< <<"@type", Arr(<<Str("Thing"), Str("Recipe")>>)>>,
               <<"name", Fin(5, 0)>>,
               <<"recipeIngredient", Arr(<<Str("1 onion")>>)>> >>)

LdBlocks ==
    LET \* a Recipe whose recipeIngredient is empty and whose ingredients is not
        rStock == Obj(<< <<"@type", Str("Recipe")>>,
                         <<"name", Str("Stock")>>,
                         <<"recipeIngredient", Arr(<<>>)>>,
                         <<"ingredients", Arr(<<Str("3 bones")>>)>> >>)
        \* a Recipe that encloses another Recipe
        rStew == Obj(<< <<"@type", Str("Recipe")>>,
                        <<"name", Str("Beef Stew")>>,
                        <<"recipeYield", Str("4")>>,
                        <<"recipeIngredient", Arr(<<Str("1 carrot")>>)>>,
                        <<"isBasedOn",
                          Obj(<< <<"@type", Str("Recipe")>>,
                                 <<"name", Str("Broth")>>,
                                 <<"recipeYield", Str("2")>>,
                                 <<"recipeIngredient", Arr(<<Str("3 bones")>>)>> >>)>> >>)
        rNews == Obj(<< <<"@type", Str("Recipe")>>,
                        <<"headline", Str("Get notified about new recipes")>>,
                        <<"recipeIngredient", Arr(<<Str("2 eggs")>>)>> >>)
        rZero == Obj(<< <<"@type", Str("Recipe")>>,
                        <<"name", Str("")>>,
                        <<"recipeYield", Fin(0, 0)>>,
                        <<"recipeIngredient", Arr(<<Str("2.5 cups rice")>>)>> >>)
        rBare == Obj(<< <<"@type", Str("recipe")>>,
                        <<"name", Arr(<<Str("Stock")>>)>> >>)
        rSite == Obj(<< <<"@type", Str("WebSite")>>, <<"name", Str("Food Site")>> >>)
    IN  {JsonText(<<Garbage>>, <<>>),
                 JsonText(<<rChili>>, <<>>),
                 JsonText(<<rOdd>>, <<>>),
                 JsonText(<<rBare>>, <<>>),
                 JsonText(<<rZero>>, <<>>),
                 JsonText(<<Obj(<< <<"@graph", Arr(<<rSite, rStew>>)>> >>), rChili>>,
                          <<" ">>),
                 JsonText(<<rStock, rSite>>, <<"">>),
                 JsonText(<<rNews>>, <<>>)}

RECURSIVE SeqsUpTo(_, _)
\* the sequences over S of length at most n
SeqsUpTo(S, n) ==
    IF n = 0 THEN {<<>>}
    ELSE {<<>>} \cup {<<e>> \o q : e \in S, q \in SeqsUpTo(S, n - 1)}

\* the head and the body of the pages
Pages ==
    LET Input(id, value) == [k |-> "input", id |-> id, value |-> value]
        TitleTag(inner) == [k |-> "title", inner |-> inner]
        OgTitle(content) == [k |-> "og", content |-> content]
    IN  {
        <<>>,
        <<OgTitle("Best &amp; Easy Chili"), TitleTag("Chili | Site")>>,
        <<TitleTag("Get Notified About New Recipes")>>,
        <<OgTitle("Best &amp; Easy Chili"), TitleTag("Chili | Site"),
          H(1, "Chili"), H(2, "Ingredients"),
          List("ul", "", <<"3 cups flour", "Per serving: 320 calories",
                           "10g fat, 5g protein">>),
          Box("p", "", "Serves 4"), H(2, "Directions"), List("ol", "", <<"Mix">>)>>,
        <<H(2, "Ingredients"), List("ul", "", <<"-2 cups sugar", "Infinity salt">>),
          Box("div", "", "Servings: 0"), H(3, "Ingredient notes")>>,
        <<TitleTag("Get Notified About New Recipes"),
          H(1, "Get notified about new recipes"), H(1, "Real Title"),
          H(2, "Ingredients"), List("ol", "", <<"Per serving: 320 calories">>)>>,
        <<TitleTag("Chili | Site"),
          H(1, "AR Chili"), Input("servings", "2.5"),
          List("ul", "mntl-structured-ingredients__list", <<"1 onion", " ">>)>>,
        <<H(2, "Ingredients"), H(2, "Steps"), List("ul", "", <<"0x10 g salt">>),
          Box("p", "", "Makes 8 servings")>>,
        <<H(2, "Ingredients"), List("ul", "", <<"1 cup milk">>),
          H(2, "<span>More Ingredients</span>"), List("ul", "", <<"2 eggs">>),
          H(3, "For the sauce"), List("ul", "", <<"3 tbsp butter">>),
          H(2, "Method"), List("ol", "", <<"Whisk">>),
          H(3, "Steps"), List("ol", "", <<"Bake">>)>>,
        <<TitleTag("Get Notified About New Recipes"),
          H(1, "Get notified about new recipes"),
          H(1, "Get notified about new recipes!")>>}

\* up to MaxBlocks script blocks, then the head and the body of a page
Docs == {[i \in 1..Len(q) |-> Ld(q[i])] \o page :
            q \in SeqsUpTo(LdBlocks, MaxBlocks), page \in Pages}

Tokens == {"2", "0.5", "1/2", "1e3", "-2", "Infinity", "0x10", "cups", "sugar",
           "&amp;amp;"}
Lines == {JoinSp(q) : q \in SeqsUpTo(Tokens, MaxTokens)}

(***************************************************************************)
(* parseRecipeFromUrl as a state machine.  pc is the position of the call: *)
(* the awaits of the fetch are its suspension points, the strategies run   *)
(* one after the other in between.  ran lists the strategies the call has  *)
(* run, each with the ingredients it yielded.  rawLine and tokenized are   *)
(* the argument and the result of a call of one of the tokenizers.         *)
(***************************************************************************)
VARIABLES pc, url, fetches, html, found, genericParsed, ran, result, error,
          rawLine, tokenized, retokenized, calls,
          request, importPage, recipesPage

vars == <<pc, url, fetches, html, found, genericParsed, ran, result, error,
          rawLine, tokenized, retokenized, calls,
          request, importPage, recipesPage>>

\* no POST /recipes request has arrived
NoRequest ==
    [pc |-> "idle", ingredients |-> <<>>, log |-> <<>>, results |-> <<>>,
     responses |-> <<>>, acquired |-> 0, released |-> 0]

\* ImportRecipePage as first rendered
FreshImportPage ==
    [recipeUrl |-> "", recipeTitle |-> "", servings |-> "", ingredientRows |-> <<>>,
     parseErrorMessage |-> "", saveErrorMessage |-> "", successMessage |-> "",
     isSaving |-> FALSE, pending |-> Null]

\* the ids of the saved recipes
RecipeIds == {"r1", "r2"}

\* RecipesPage as first rendered
FreshRecipesPage ==
    [recipes |-> <<>>, isLoading |-> TRUE, errorMessage |-> "",
     expandedRecipeIds |-> <<>>,
     detailsById |-> [id \in RecipeIds |-> Undef],
     inFlight |-> [id \in RecipeIds |-> 0]]

Idle ==
    /\ pc = "idle"
    /\ url = ""
    /\ fetches = 0
    /\ html = <<>>
    /\ found = <<>>
    /\ genericParsed = Null
    /\ ran = <<>>
    /\ result = Null
    /\ error = ""
    /\ request = NoRequest
    /\ importPage = FreshImportPage
    /\ recipesPage = FreshRecipesPage

\* an entry of ran; given lists the arguments of the tuned rule that was called
Strategy(name, items) == [strategy |-> name, items |-> items, given |-> <<>>]

\* a call starts: the URL is validated, then the fetch is issued (lines 345-366)
Call(u) ==
    /\ pc \in {"idle", "done", "failed"}
    /\ url' = u
    /\ html' = <<>>
    /\ found' = <<>>
    /\ genericParsed' = Null
    /\ ran' = <<>>
    /\ result' = Null
    /\ IF UrlIsValid(u)
       THEN pc' = "fetching" /\ fetches' = 1 /\ error' = ""
       ELSE pc' = "failed" /\ fetches' = 0 /\ error' = "invalid recipe url"
    /\ UNCHANGED <<rawLine, tokenized, retokenized, calls,
                   request, importPage, recipesPage>>

\* the fetch settles with a response; its text is read (lines 368-375)
FetchResolves(st, doc) ==
    /\ pc = "fetching"
    /\ IF st >= 200 /\ st <= 299
       THEN pc' = "jsonld" /\ html' = doc /\ error' = ""
       ELSE /\ pc' = "failed"
            /\ html' = html
            /\ error' = "failed to fetch recipe page. status: " \o NatStr(st)
    /\ UNCHANGED <<url, fetches, found, genericParsed, ran, result,
                   rawLine, tokenized, retokenized, calls,
                   request, importPage, recipesPage>>

\* the fetch settles with a network failure
FetchRejects ==
    /\ pc = "fetching"
    /\ pc' = "failed"
    /\ error' = "fetch failed"
    /\ UNCHANGED <<url, fetches, html, found, genericParsed, ran, result,
                   rawLine, tokenized, retokenized, calls,
                   request, importPage, recipesPage>>

\* what parseRecipeFromUrl returns for a generic result (lines 388-397)
GenericPreview(parsed, u) ==
    Preview(OrElse(parsed.title, TitleSentinel), u, parsed.servings,
            parsed.ingredients)

\* parseRecipeHtml, structured data first (lines 421-441)
RunJsonLd ==
    LET Uses(parsed) ==
            /\ pc' = "done"
            /\ ran' = Append(ran, Strategy("jsonld", parsed.ingredients))
            /\ genericParsed' = parsed
            /\ result' = GenericPreview(parsed, url)
            /\ error' = ""
        Settles(fromJsonLd) ==
            IF fromJsonLd.k = "throw"
            THEN /\ pc' = "failed"
                 /\ ran' = Append(ran, Strategy("jsonld", <<>>))
                 /\ error' = fromJsonLd.error
                 /\ UNCHANGED <<genericParsed, result>>
            ELSE IF UsesJsonLd(fromJsonLd)
            THEN Uses(JsonLdResult(url, html, fromJsonLd.v))
            ELSE /\ pc' = "section"
                 /\ ran' = Append(ran, Strategy("jsonld", <<>>))
                 /\ UNCHANGED <<genericParsed, result, error>>
    IN  /\ pc = "jsonld"
        /\ found' = AllRecipeNodes(html, 1)
        /\ Settles(parseFromJsonLd(html))
        /\ UNCHANGED <<url, fetches, html, rawLine, tokenized, retokenized, calls,
                       request, importPage, recipesPage>>

\* a variant of the fallback that goes on to the later strategies even when
\* the heading section gave ingredients
RunSectionAndGoOn ==
    LET Settles(parsed) ==
            /\ genericParsed' = parsed
            /\ ran' = Append(ran, Strategy("section", parsed.ingredients))
            /\ pc' = "dispatch"
            /\ result' = result
    IN  /\ pc = "section"
        /\ Settles(SectionResult(url, html))
        /\ UNCHANGED <<url, fetches, html, found, error, rawLine, tokenized, retokenized, calls,
                       request, importPage, recipesPage>>

\* parseRecipeHtml, the heading-section fallback (lines 443-460)
RunSection ==
    LET Settles(parsed) ==
            /\ genericParsed' = parsed
            /\ ran' = Append(ran, Strategy("section", parsed.ingredients))
            /\ IF Len(parsed.ingredients) > 0
               THEN pc' = "done" /\ result' = GenericPreview(parsed, url)
               ELSE pc' = "dispatch" /\ result' = result
    IN  /\ pc = "section"
        /\ Settles(SectionResult(url, html))
        /\ UNCHANGED <<url, fetches, html, found, error, rawLine, tokenized, retokenized, calls,
                       request, importPage, recipesPage>>

\* the preview of a tuned rule or of the final scan is returned as it is
Returns(name, given, preview) ==
    /\ ran' = Append(ran, [Strategy(name, preview.ingredients) EXCEPT !.given = given])
    /\ result' = preview
    /\ pc' = "done"
    /\ UNCHANGED <<url, fetches, html, found, genericParsed, error,
                   rawLine, tokenized, retokenized, calls,
                   request, importPage, recipesPage>>

\* the arguments the orchestrator passes to a tuned rule (lines 409-428)
RuleArguments(rule, doc, u, fallbackTitle, fallbackServings) ==
    IF rule = 4 THEN <<doc, u, fallbackTitle, fallbackServings>> ELSE <<doc, u>>

\* the tuned rule of the domain (lines 399-428)
RunTuned ==
    LET Tuned(rule) ==
            /\ rule # 0
            /\ Returns(TunedDomains[rule],
                       RuleArguments(rule, html, url,
                                     OrElse(genericParsed.title, TitleSentinel),
                                     genericParsed.servings),
                       RunRule(rule, html, url,
                               OrElse(genericParsed.title, TitleSentinel),
                               genericParsed.servings))
    IN  pc = "dispatch" /\ Tuned(TunedRule(Hostname(url)))

\* a variant in which the final scan also runs after a tuned rule that found
\* no ingredient
RunFinalScanAfterEmptyRule ==
    /\ \/ pc = "dispatch" /\ TunedRule(Hostname(url)) = 0
       \/ /\ pc = "done"
          /\ Len(ran) = 3
          /\ ran[3].strategy # "final"
          /\ ran[3].items = <<>>
    /\ Returns("final", <<>>,
               FinalScan(html, url, OrElse(genericParsed.title, TitleSentinel),
                         genericParsed.servings))

\* no tuned rule: the final generic heading scan (lines 430-457)
RunFinalScan ==
    /\ pc = "dispatch"
    /\ TunedRule(Hostname(url)) = 0
    /\ Returns("final", <<>>,
               FinalScan(html, url, OrElse(genericParsed.title, TitleSentinel),
                         genericParsed.servings))

Next ==
    LET Urls == BadUrls \cup {"https://example.com/chili",
                              "https://www.allrecipes.com/recipe/1",
                              "https://www.simplyrecipes.com/soup",
                              "https://www.delish.com/pie",
                              "https://JoshuaWeissman.com/bread"}
    IN
    \/ \E u \in Urls : Call(u)
    \/ \E st \in Statuses, doc \in Docs : FetchResolves(st, doc)
    \/ FetchRejects
    \/ RunJsonLd
    \/ RunSection
    \/ RunTuned
    \/ RunFinalScan

Init ==
    Idle /\ rawLine = "" /\ tokenized = Null /\ retokenized = Null /\ calls = <<>>

Spec == Init /\ [][Next]_vars

(***************************************************************************)
(* The tokenizers on their own: a line is given to one of them             *)
(***************************************************************************)

Tokenized(by, ingredient) == [by |-> by, ingredient |-> ingredient]

CallParseIngredientLine ==
    /\ tokenized = Null
    /\ tokenized' = Tokenized("parseIngredientLine", parseIngredientLine(rawLine))
    /\ UNCHANGED <<pc, url, fetches, html, found, genericParsed, ran, result,
                   error, rawLine, retokenized, calls,
                   request, importPage, recipesPage>>

CallParseIngredientText ==
    /\ tokenized = Null
    /\ tokenized' = Tokenized("parseIngredientText", parseIngredientText(rawLine))
    /\ UNCHANGED <<pc, url, fetches, html, found, genericParsed, ran, result,
                   error, rawLine, retokenized, calls,
                   request, importPage, recipesPage>>

\* parseIngredientLine is called again, on the text that joins the parts of
\* its own result that are present (amount, unit, name) with single spaces
CallOnReconstructed ==
    LET Parts(ingredient) ==
            (IF ingredient.amount # Null THEN <<FinStr(ingredient.amount)>> ELSE <<>>)
                \o (IF ingredient.unit # Null THEN <<ingredient.unit.s>> ELSE <<>>)
                \o (IF ingredient.name # "" THEN <<ingredient.name>> ELSE <<>>)
    IN  /\ tokenized # Null
        /\ tokenized.by = "parseIngredientLine"
        /\ retokenized = Null
        /\ retokenized' = parseIngredientLine(JoinSp(Parts(tokenized.ingredient)))
        /\ UNCHANGED <<pc, url, fetches, html, found, genericParsed, ran, result,
                       error, rawLine, tokenized, calls,
                       request, importPage, recipesPage>>

NextTok ==
    \/ CallParseIngredientLine
    \/ CallParseIngredientText
    \/ CallOnReconstructed

InitTok ==
    /\ Idle
    /\ rawLine \in Lines
    /\ tokenized = Null
    /\ retokenized = Null
    /\ calls = <<>>

SpecTok == InitTok /\ [][NextTok]_vars

(***************************************************************************)
(* Concurrent calls of parseRecipeFromUrl.  Every call has its own url,    *)
(* response text and result (the parameters and locals of the async        *)
(* function); a call is suspended at await fetch(...) and at               *)
(* await response.text(), and runs without interruption in between.  The   *)
(* field "during" records whether another call was suspended when the call *)
(* resumed for the last time.                                              *)
(***************************************************************************)
MaxCalls == 2
Calls == 1..MaxCalls

\* what a call makes of its url and of the text it read (lines 377-457)
Extract(u, doc) ==
    LET Falls(parsed, rule) ==
            IF Len(parsed.ingredients) > 0 THEN GenericPreview(parsed, u)
            ELSE IF rule # 0
                 THEN RunRule(rule, doc, u, OrElse(parsed.title, TitleSentinel),
                              parsed.servings)
            ELSE FinalScan(doc, u, OrElse(parsed.title, TitleSentinel),
                           parsed.servings)
        Generic(fromJsonLd) ==
            IF fromJsonLd.k = "throw" THEN fromJsonLd
            ELSE IF UsesJsonLd(fromJsonLd)
                 THEN Returned(GenericPreview(JsonLdResult(u, doc, fromJsonLd.v), u))
            ELSE Returned(Falls(SectionResult(u, doc), TunedRule(Hostname(u))))
    IN  Generic(parseFromJsonLd(doc))

\* call c starts: the URL is validated, then the fetch is issued
CallOf(c, u) ==
    /\ calls[c].pc = "idle"
    /\ calls' = [calls EXCEPT ![c] =
                    IF UrlIsValid(u)
                    THEN [@ EXCEPT !.pc = "fetching", !.url = u]
                    ELSE [@ EXCEPT !.pc = "failed", !.url = u,
                                   !.error = "invalid recipe url"]]
    /\ UNCHANGED <<pc, url, fetches, html, found, genericParsed, ran, result,
                   error, rawLine, tokenized, retokenized,
                   request, importPage, recipesPage>>

\* the fetch of call c resolves with a response of status st
ResponseOf(c, st) ==
    /\ calls[c].pc = "fetching"
    /\ calls' = [calls EXCEPT ![c] =
                    IF st >= 200 /\ st <= 299
                    THEN [@ EXCEPT !.pc = "reading"]
                    ELSE [@ EXCEPT !.pc = "failed",
                                   !.error = "failed to fetch recipe page. status: "
                                                 \o NatStr(st)]]
    /\ UNCHANGED <<pc, url, fetches, html, found, genericParsed, ran, result,
                   error, rawLine, tokenized, retokenized,
                   request, importPage, recipesPage>>

\* the fetch of call c rejects
RejectionOf(c) ==
    /\ calls[c].pc = "fetching"
    /\ calls' = [calls EXCEPT ![c] = [@ EXCEPT !.pc = "failed",
                                                !.error = "fetch failed"]]
    /\ UNCHANGED <<pc, url, fetches, html, found, genericParsed, ran, result,
                   error, rawLine, tokenized, retokenized,
                   request, importPage, recipesPage>>

\* a variant in which the url is kept in one place for all the calls: a call
\* that resumes reads the url of the earliest call that has started
TextOfWithSharedUrl(c, doc) ==
    LET InFlight == \E d \in Calls \ {c} : calls[d].pc \in {"fetching", "reading"}
        Settles(outcome) ==
            calls' = [calls EXCEPT ![c] =
                         IF outcome.k = "throw"
                         THEN [@ EXCEPT !.pc = "failed", !.html = doc,
                                        !.during = InFlight,
                                        !.error = outcome.error]
                         ELSE [@ EXCEPT !.pc = "done", !.html = doc,
                                        !.during = InFlight,
                                        !.result = outcome.v]]
    IN  /\ calls[c].pc = "reading"
        /\ Settles(Extract(calls[MinOf({d \in Calls : calls[d].pc # "idle"})].url,
                           doc))
        /\ UNCHANGED <<pc, url, fetches, html, found, genericParsed, ran, result,
                       error, rawLine, tokenized, retokenized,
                       request, importPage, recipesPage>>

\* the text of the response of call c is read and the call runs to its end
TextOf(c, doc) ==
    LET InFlight == \E d \in Calls \ {c} : calls[d].pc \in {"fetching", "reading"}
        Settles(outcome) ==
            calls' = [calls EXCEPT ![c] =
                         IF outcome.k = "throw"
                         THEN [@ EXCEPT !.pc = "failed", !.html = doc,
                                        !.during = InFlight,
                                        !.error = outcome.error]
                         ELSE [@ EXCEPT !.pc = "done", !.html = doc,
                                        !.during = InFlight,
                                        !.result = outcome.v]]
    IN  /\ calls[c].pc = "reading"
        /\ Settles(Extract(calls[c].url, doc))
        /\ UNCHANGED <<pc, url, fetches, html, found, genericParsed, ran, result,
                       error, rawLine, tokenized, retokenized,
                       request, importPage, recipesPage>>

NextPar ==
    \E c \in Calls :
        \/ \E u \in {"not a url", "https://example.com/chili",
                     "https://JoshuaWeissman.com/bread"} : CallOf(c, u)
        \/ \E st \in Statuses : ResponseOf(c, st)
        \/ RejectionOf(c)
        \/ \E doc \in {<<Ld(JsonText(<<rChili>>, <<>>))>>,
                        <<Ld(JsonText(<<rOdd>>, <<>>))>>,
                        <<H(2, "Ingredients"), H(2, "Steps"),
                          List("ul", "", <<"0x10 g salt">>),
                          Box("p", "", "Makes 8 servings")>>} : TextOf(c, doc)

InitPar ==
    /\ Idle
    /\ rawLine = ""
    /\ tokenized = Null
    /\ retokenized = Null
    /\ calls = [c \in Calls |->
                   [pc |-> "idle", url |-> "", html |-> <<>>, during |-> FALSE,
                    result |-> Null, error |-> ""]]

SpecPar == InitPar /\ [][NextPar]_vars

(***************************************************************************)
(* POST /recipes (server.ts).  The handler runs from one await to the     *)
(* next without interruption; every awaited call on the pool or on the     *)
(* client can resolve or reject.  log lists the statements issued on the   *)
(* client, results the outcome of those that have settled.                 *)
(***************************************************************************)

MaxIngredients == 2

\* the variables of the extraction and of the tokenizers
parsing == <<pc, url, fetches, html, found, genericParsed, ran, result, error,
             rawLine, tokenized, retokenized, calls>>

\* !value for the values a body carries
Absent(value) == value \in {Undef, Null, Str("")}

\* request.body as express.json() leaves it
Bodies ==
    LET \* the elements of body.ingredients
        BodyEntries == {Null, [name |-> Str("")], [name |-> Str("salt")]}
    IN
    [title : {Undef, Str(""), Str("Chili")},
     sourceUrl : {Undef, Str("https://example.com/chili")},
     ingredients : {Undef, Str("salt")}
                      \cup {Arr(a) : a \in UNION {[1..n -> BodyEntries] : n \in 0..MaxIngredients}}]

\* !ingredient || !ingredient.name is false
Named(ingredient) == ingredient # Null /\ ~Absent(ingredient.name)

\* the statements the try block issues when none of them fails (lines 208-262)
Statements(ingredients) ==
    LET Inserts(named) ==
            [i \in 1..(2 * Len(named)) |->
                IF i % 2 = 1 THEN "INSERT ingredients" ELSE "INSERT recipe_ingredients"]
    IN  <<"BEGIN", "INSERT recipes">> \o Inserts(SelectSeq(ingredients, Named)) \o <<"COMMIT">>

\* response.status(status).json(...)
Respond(req, status) == [req EXCEPT !.responses = Append(@, status)]

\* client.release() of the finally block
Release(req) == [req EXCEPT !.released = @ + 1]

\* the global error handler: a generic 500
errorHandler(req) == Respond(req, 500)

\* the request arrives: the 503 and 400 checks, then dbPool.connect() is awaited
PostRecipes(configured, body) ==
    LET Ingredients == IF body.ingredients = Undef THEN Arr(<<>>) ELSE body.ingredients
        Answer(status) == [Respond(request, status) EXCEPT !.pc = "done"]
    IN  /\ request.pc = "idle"
        /\ request' =
               IF ~configured THEN Answer(503)
               ELSE IF Absent(body.title) \/ Absent(body.sourceUrl) THEN Answer(400)
               ELSE IF ~IsArr(Ingredients) THEN Answer(400)
               ELSE [request EXCEPT !.pc = "connect", !.ingredients = Ingredients.a]
        /\ UNCHANGED <<parsing, importPage, recipesPage>>

\* dbPool.connect() resolves: BEGIN is issued on the client
ConnectResolves ==
    /\ request.pc = "connect"
    /\ request' = [request EXCEPT !.pc = "query", !.acquired = @ + 1, !.log = <<"BEGIN">>]
    /\ UNCHANGED <<parsing, importPage, recipesPage>>

\* dbPool.connect() rejects, outside the try block: the handler's promise rejects
ConnectRejects ==
    /\ request.pc = "connect"
    /\ request' = [request EXCEPT !.pc = "rejected"]
    /\ UNCHANGED <<parsing, importPage, recipesPage>>

\* the statement in flight resolves: the next one is issued; after COMMIT
\* the 201 response is sent and the finally block releases the client
QueryResolves ==
    LET Settled == [request EXCEPT !.results = Append(@, TRUE)]
    IN  /\ request.pc = "query"
        /\ request' =
               IF request.log[Len(request.log)] = "COMMIT"
               THEN [Release(Respond(Settled, 201)) EXCEPT !.pc = "done"]
               ELSE [Settled EXCEPT
                        !.log = Append(@, Statements(request.ingredients)[Len(request.log) + 1])]
        /\ UNCHANGED <<parsing, importPage, recipesPage>>

\* the statement in flight rejects and the handler goes on to the next one
QueryRejectsAndGoesOn ==
    /\ request.pc = "query"
    /\ request.log[Len(request.log)] # "COMMIT"
    /\ request' = [request EXCEPT
                      !.results = Append(@, FALSE),
                      !.log = Append(@, Statements(request.ingredients)[Len(request.log) + 1])]
    /\ UNCHANGED <<parsing, importPage, recipesPage>>

\* the statement in flight rejects: the catch block issues ROLLBACK
QueryRejects ==
    /\ request.pc = "query"
    /\ request' = [request EXCEPT !.pc = "rollback",
                                  !.results = Append(@, FALSE),
                                  !.log = Append(@, "ROLLBACK")]
    /\ UNCHANGED <<parsing, importPage, recipesPage>>

\* ROLLBACK resolves: next(error) runs the error handler, finally releases
RollbackResolves ==
    /\ request.pc = "rollback"
    /\ request' = [Release(errorHandler([request EXCEPT !.results = Append(@, TRUE)]))
                      EXCEPT !.pc = "done"]
    /\ UNCHANGED <<parsing, importPage, recipesPage>>

\* ROLLBACK rejects: next(error) is skipped, finally releases, the promise rejects
RollbackRejects ==
    /\ request.pc = "rollback"
    /\ request' = [Release([request EXCEPT !.results = Append(@, FALSE)])
                      EXCEPT !.pc = "rejected"]
    /\ UNCHANGED <<parsing, importPage, recipesPage>>

\* the rejected promise of the handler is passed to the error handler
\* (a router that awaits its handlers)
RejectionForwarded ==
    /\ request.pc = "rejected"
    /\ request' = [errorHandler(request) EXCEPT !.pc = "done"]
    /\ UNCHANGED <<parsing, importPage, recipesPage>>

\* the rejected promise of the handler is dropped (a router that ignores the
\* value its handlers return): nothing is sent
RejectionDropped ==
    /\ request.pc = "rejected"
    /\ request' = [request EXCEPT !.pc = "done"]
    /\ UNCHANGED <<parsing, importPage, recipesPage>>

NextPost ==
    \/ \E configured \in BOOLEAN, body \in Bodies : PostRecipes(configured, body)
    \/ ConnectResolves
    \/ ConnectRejects
    \/ QueryResolves
    \/ QueryRejects
    \/ RollbackResolves
    \/ RollbackRejects
    \/ RejectionForwarded
    \/ RejectionDropped

SpecPost == Init /\ [][NextPost]_vars

(***************************************************************************)
(* ImportRecipePage.  An event handler runs to its end before the next     *)
(* event is handled; handleSaveRecipe is suspended at await createRecipe,  *)
(* and pending is the payload of the call in flight.  isParsing is set and *)
(* reset within one run of handleParseIngredients and is never seen true.  *)
(* The messages are kept by a short key.                                   *)
(***************************************************************************)

MaxRows == 2

\* inferTitleFromUrl: the last path segment with runs of - and _ turned into
\* a space and a trailing extension removed; "" when new URL throws
inferTitleFromUrl(link) ==
    LET MaxOf(S) == IF S = {} THEN 0 ELSE CHOOSE a \in S : \A b \in S : a >= b
        IsAlnum(ch) ==
            IsDigit(ch) \/ ch \in DOMAIN LowerOf \/ ch \in {LowerOf[u] : u \in DOMAIN LowerOf}
        IsDash(ch) == ch \in {"-", "_"}
        \* parsed.pathname
        Upto(p, stop) == IF stop = 0 THEN p ELSE SubSeq(p, 1, stop - 1)
        Path(p) == Upto(p, MinOf({j \in 1..Len(p) : Ch(p, j) \in {"?", "#"}}))
        Pathname(rest, slash) == IF slash = 0 THEN "/" ELSE Path(From(rest, slash))
        \* .split("/").filter(Boolean).pop() ?? ""
        Segment(p, last) ==
            IF last = 0 THEN ""
            ELSE SubSeq(p, MaxOf({j \in 1..last : Ch(p, j) = "/"}) + 1, last)
        LastSegment(p) == Segment(p, MaxOf({j \in 1..Len(p) : Ch(p, j) # "/"}))
        \* .replace(/[-_]+/g, " ")
        RECURSIVE Spaced(_, _)
        Spaced(seg, i) ==
            IF i > Len(seg) THEN ""
            ELSE IF IsDash(Ch(seg, i))
                 THEN (IF i > 1 /\ IsDash(Ch(seg, i - 1)) THEN "" ELSE " ")
                          \o Spaced(seg, i + 1)
                 ELSE Ch(seg, i) \o Spaced(seg, i + 1)
        \* .replace(/\.[a-zA-Z0-9]+$/, "")
        CutAt(t, dot) == IF dot = 0 THEN t ELSE SubSeq(t, 1, dot - 1)
        NoExtension(t) ==
            CutAt(t, MinOf({j \in 1..(Len(t) - 1) :
                               /\ Ch(t, j) = "."
                               /\ \A n \in (j + 1)..Len(t) : IsAlnum(Ch(t, n))}))
        Title(rest) ==
            Trim(NoExtension(Spaced(LastSegment(Pathname(rest, IndexFrom(rest, 1, "/"))), 1)))
    IN  IF ~UrlIsValid(link) THEN ""
        ELSE Title(From(Trim(link), SchemeEnd(Trim(link)) + 3))

\* Number.parseFloat(text): the value of the longest prefix that is an
\* unsigned decimal literal, NaN when there is none
parseFloat(text) ==
    LET Value(n) == UnsignedLiteral(SubSeq(text, 1, n))
        Longest(S) == IF S = {} THEN NaN
                      ELSE Value(CHOOSE a \in S : \A b \in S : a >= b)
    IN  Longest({n \in 1..Len(text) : Value(n).k = "fin"})

\* createRowId(): an id that no row of the page has
createRowId(rows) ==
    CHOOSE id \in 1..(Len(rows) + 1) :
        /\ \A n \in 1..Len(rows) : rows[n].id # id
        /\ \A other \in 1..(id - 1) : \E n \in 1..Len(rows) : rows[n].id = other

createEmptyIngredient(rows) ==
    [id |-> createRowId(rows), name |-> "", amount |-> "", unit |-> ""]

\* the payload entries of all rows, the rows without a name included
normalizedIngredientsOfAllRows(rows) ==
    [n \in 1..Len(rows) |->
        [name |-> Trim(rows[n].name),
         amount |-> IF Trim(rows[n].amount) = "" THEN Null ELSE parseFloat(Trim(rows[n].amount)),
         unit |-> IF Trim(rows[n].unit) = "" THEN Null ELSE Str(Trim(rows[n].unit))]]

\* normalizedIngredients of handleSaveRecipe (lines 199-217)
normalizedIngredients(rows) ==
    LET HasName(row) == Len(Trim(row.name)) > 0
        Amount(trimmedAmount) ==
            LET Numeric(v) == IF IsNaN(v) THEN Null ELSE v
            IN  IF trimmedAmount = "" THEN Null ELSE Numeric(parseFloat(trimmedAmount))
        Unit(trimmedUnit) == IF trimmedUnit = "" THEN Null ELSE Str(trimmedUnit)
        Kept(kept) ==
            [n \in 1..Len(kept) |->
                [name |-> Trim(kept[n].name),
                 amount |-> Amount(Trim(kept[n].amount)),
                 unit |-> Unit(Trim(kept[n].unit))]]
    IN  Kept(SelectSeq(rows, HasName))

\* the onChange handlers of the url, title and servings inputs
setInput(field, value) ==
    /\ importPage' = [importPage EXCEPT ![field] = value]
    /\ UNCHANGED <<parsing, request, recipesPage>>

\* the parse form is submitted
handleParseIngredients ==
    LET Cleared == [importPage EXCEPT !.parseErrorMessage = "",
                                      !.saveErrorMessage = "",
                                      !.successMessage = ""]
        Titled(page, inferredTitle) ==
            IF Trim(page.recipeTitle) = "" /\ inferredTitle # ""
            THEN [page EXCEPT !.recipeTitle = inferredTitle] ELSE page
        Seeded(page) ==
            IF Len(page.ingredientRows) > 0 THEN page
            ELSE [page EXCEPT !.ingredientRows =
                     <<[id |-> 1, name |-> "", amount |-> "", unit |-> ""],
                       [id |-> 2, name |-> "", amount |-> "", unit |-> ""]>>]
        Parsed(trimmedUrl) ==
            IF trimmedUrl = "" THEN [Cleared EXCEPT !.parseErrorMessage = "url"]
            ELSE Seeded(Titled(Cleared, inferTitleFromUrl(trimmedUrl)))
    IN  /\ importPage' = Parsed(Trim(importPage.recipeUrl))
        /\ UNCHANGED <<parsing, request, recipesPage>>

\* a field of a rendered row is edited
handleIngredientFieldChange(rowId, field, value) ==
    /\ \E n \in 1..Len(importPage.ingredientRows) : importPage.ingredientRows[n].id = rowId
    /\ importPage' = [importPage EXCEPT !.ingredientRows =
                         [n \in 1..Len(@) |->
                             IF @[n].id = rowId THEN [@[n] EXCEPT ![field] = value] ELSE @[n]]]
    /\ UNCHANGED <<parsing, request, recipesPage>>

\* "+ add ingredient", rendered when there are rows
addIngredient ==
    /\ Len(importPage.ingredientRows) > 0
    /\ Len(importPage.ingredientRows) < MaxRows
    /\ importPage' = [importPage EXCEPT !.ingredientRows =
                         Append(@, createEmptyIngredient(@))]
    /\ UNCHANGED <<parsing, request, recipesPage>>

\* "remove" of a rendered row
removeIngredient(rowId) ==
    LET Other(row) == row.id # rowId
    IN  /\ \E n \in 1..Len(importPage.ingredientRows) : importPage.ingredientRows[n].id = rowId
        /\ importPage' = [importPage EXCEPT !.ingredientRows = SelectSeq(@, Other)]
        /\ UNCHANGED <<parsing, request, recipesPage>>

\* the save form is submitted; it is rendered when there are rows and its
\* button is disabled while isSaving
handleSaveRecipe ==
    LET Cleared == [importPage EXCEPT !.saveErrorMessage = "", !.successMessage = ""]
        parsedServings(trimmedServings) ==
            IF trimmedServings = "" \/ ~IsDigit(Ch(trimmedServings, 1)) THEN Null
            ELSE ParseIntDigits(SubSeq(trimmedServings, 1, DigitRunEnd(trimmedServings, 1)))
        Saved(trimmedUrl, trimmedTitle, ingredients) ==
            IF trimmedUrl = "" \/ trimmedTitle = ""
            THEN [Cleared EXCEPT !.saveErrorMessage = "fields"]
            ELSE IF Len(ingredients) = 0
            THEN [Cleared EXCEPT !.saveErrorMessage = "ingredients"]
            ELSE [Cleared EXCEPT
                     !.isSaving = TRUE,
                     !.pending = [title |-> trimmedTitle,
                                  sourceUrl |-> trimmedUrl,
                                  servings |-> parsedServings(Trim(importPage.servings)),
                                  ingredients |-> ingredients]]
    IN  /\ Len(importPage.ingredientRows) > 0
        /\ ~importPage.isSaving
        /\ importPage' = Saved(Trim(importPage.recipeUrl), Trim(importPage.recipeTitle),
                               normalizedIngredients(importPage.ingredientRows))
        /\ UNCHANGED <<parsing, request, recipesPage>>

\* createRecipe resolves: the success message, the rows are reset
CreateResolves ==
    /\ importPage.pending # Null
    /\ importPage' = [importPage EXCEPT !.successMessage = "saved",
                                        !.ingredientRows = <<>>,
                                        !.isSaving = FALSE,
                                        !.pending = Null]
    /\ UNCHANGED <<parsing, request, recipesPage>>

\* createRecipe rejects (network error or a response that is not ok)
CreateRejects ==
    /\ importPage.pending # Null
    /\ importPage' = [importPage EXCEPT !.saveErrorMessage = "failed",
                                        !.isSaving = FALSE,
                                        !.pending = Null]
    /\ UNCHANGED <<parsing, request, recipesPage>>

NextImport ==
    \/ \E value \in {"https://example.com/keto-chili.html "} : setInput("recipeUrl", value)
    \/ \E value \in {" "} : setInput("recipeTitle", value)
    \/ \E value \in {"4"} : setInput("servings", value)
    \/ handleParseIngredients
    \/ \E rowId \in 1..(MaxRows + 1) :
          \/ \E value \in {"", " ", "salt "} : handleIngredientFieldChange(rowId, "name", value)
          \/ \E value \in {"", "2"} : handleIngredientFieldChange(rowId, "amount", value)
          \/ removeIngredient(rowId)
    \/ addIngredient
    \/ handleSaveRecipe
    \/ CreateResolves
    \/ CreateRejects

SpecImport == Init /\ [][NextImport]_vars

(***************************************************************************)
(* RecipesPage.  The list is loaded when the page mounts; a card and its   *)
(* button exist for every recipe of the loaded list.  toggleIngredients is *)
(* suspended at await fetchRecipeById; inFlight counts, for every id, the  *)
(* calls that have not settled yet, and they settle in any order.          *)
(***************************************************************************)

MaxFetches == 2

\* fetchRecipes() resolves with the saved recipes
LoadResolves(list) ==
    /\ recipesPage.isLoading
    /\ recipesPage' = [recipesPage EXCEPT !.recipes = list, !.isLoading = FALSE]
    /\ UNCHANGED <<parsing, request, importPage>>

\* fetchRecipes() rejects: the page shows the error instead of the list
LoadRejects ==
    /\ recipesPage.isLoading
    /\ recipesPage' = [recipesPage EXCEPT !.errorMessage = "unable to load recipes",
                                          !.isLoading = FALSE]
    /\ UNCHANGED <<parsing, request, importPage>>

\* the details button of a card is clicked
toggleIngredients(recipeId) ==
    LET isCurrentlyExpanded ==
            \E n \in 1..Len(recipesPage.expandedRecipeIds) :
                recipesPage.expandedRecipeIds[n] = recipeId
        Other(id) == id # recipeId
        existingDetails == recipesPage.detailsById[recipeId]
        Cached == /\ existingDetails # Undef
                  /\ existingDetails.recipe # Null
                  /\ existingDetails.errorMessage = Null
        Expanded == [recipesPage EXCEPT !.expandedRecipeIds = Append(@, recipeId)]
    IN  /\ \E n \in 1..Len(recipesPage.recipes) : recipesPage.recipes[n] = recipeId
        /\ isCurrentlyExpanded \/ Cached \/ recipesPage.inFlight[recipeId] < MaxFetches
        /\ recipesPage' =
               IF isCurrentlyExpanded
               THEN [recipesPage EXCEPT !.expandedRecipeIds = SelectSeq(@, Other)]
               ELSE IF Cached THEN Expanded
               ELSE [Expanded EXCEPT
                        !.detailsById[recipeId] =
                            [recipe |-> IF existingDetails = Undef THEN Null
                                        ELSE existingDetails.recipe,
                             isLoading |-> TRUE,
                             errorMessage |-> Null],
                        !.inFlight[recipeId] = @ + 1]
        /\ UNCHANGED <<parsing, request, importPage>>

\* a fetchRecipeById(recipeId) call resolves
DetailsResolve(recipeId) ==
    /\ recipesPage.inFlight[recipeId] > 0
    /\ recipesPage' = [recipesPage EXCEPT
                          !.detailsById[recipeId] =
                              [recipe |-> Str(recipeId), isLoading |-> FALSE,
                               errorMessage |-> Null],
                          !.inFlight[recipeId] = @ - 1]
    /\ UNCHANGED <<parsing, request, importPage>>

\* a fetchRecipeById(recipeId) call rejects
DetailsReject(recipeId) ==
    /\ recipesPage.inFlight[recipeId] > 0
    /\ recipesPage' = [recipesPage EXCEPT
                          !.detailsById[recipeId] =
                              [recipe |-> Null, isLoading |-> FALSE,
                               errorMessage |-> Str("unable to load ingredients")],
                          !.inFlight[recipeId] = @ - 1]
    /\ UNCHANGED <<parsing, request, importPage>>

NextRecipes ==
    \/ \E list \in {<<>>, <<"r1">>, <<"r1", "r2">>} : LoadResolves(list)
    \/ LoadRejects
    \/ \E recipeId \in RecipeIds :
          \/ toggleIngredients(recipeId)
          \/ DetailsResolve(recipeId)
          \/ DetailsReject(recipeId)

SpecRecipes == Init /\ [][NextRecipes]_vars

(***************************************************************************)
(* Properties of one extraction call                                       *)
(***************************************************************************)
Last(s) == s[Len(s)]
Occurs(e, s) == \E k \in 1..Len(s) : s[k] = e
StrategyRank(name) ==
    CASE name = "jsonld" -> 1 [] name = "section" -> 2 [] name = "final" -> 4
      [] OTHER -> 3
HostHasTunedRule ==
    \E d \in 1..Len(TunedDomains) : Includes(Hostname(url), TunedDomains[d])

\* C1: in one call the strategies run in the order structured data, heading
\* section, tuned rule of the host (when the host name matches one), final
\* scan; every strategy before the last one run yielded no ingredient, the
\* call goes on to a later strategy only after an empty yield, and the
\* ingredients returned are exactly those of the last strategy run.
StrategiesInOrder ==
    /\ \A i, j \in 1..Len(ran) :
           i < j => StrategyRank(ran[i].strategy) < StrategyRank(ran[j].strategy)
    /\ Len(ran) >= 1 => ran[1].strategy = "jsonld"
    /\ Len(ran) >= 2 => ran[2].strategy = "section"
    /\ Len(ran) >= 3 =>
           IF HostHasTunedRule
           THEN /\ Occurs(ran[3].strategy, TunedDomains)
                /\ Includes(Hostname(url), ran[3].strategy)
           ELSE ran[3].strategy = "final"
    /\ \A i \in 1..(Len(ran) - 1) : ran[i].items = <<>>
    /\ pc \in {"section", "dispatch"} => ran # <<>> /\ Last(ran).items = <<>>
    /\ pc = "done" => ran # <<>> /\ result.ingredients = Last(ran).items

\* a later strategy ran and its ingredients were returned
FallbackStrategyWon ==
    /\ pc = "done"
    /\ Len(ran) = 3
    /\ Len(result.ingredients) > 0

\* the recipeIngredient entries of a node when they are one or more strings
StringEntries(node) ==
    LET Entries(v) ==
            IF IsArr(v) /\ \A i \in 1..Len(v.a) : IsStr(v.a[i]) THEN v.a ELSE <<>>
    IN  Entries(Get(node, "recipeIngredient"))

\* C2: when the first Recipe object of the page has a recipeIngredient array
\* of n >= 1 strings, the call returns exactly n ingredients, the i-th being
\* the tokenization of the i-th string.
JsonLdIngredientsKept ==
    (found # <<>> /\ StringEntries(found[1]) # <<>>) =>
        /\ pc = "done"
        /\ Len(result.ingredients) = Len(StringEntries(found[1]))
        /\ \A i \in 1..Len(StringEntries(found[1])) :
               result.ingredients[i] = parseIngredientLine(StringEntries(found[1])[i].s)

\* C3: once the page is fetched, parsing never raises: whatever the script
\* blocks and the fields of the Recipe objects hold, the call does not fail.
ParsingNeverRaises == ran # <<>> => pc # "failed"

LdIndexes(doc) == {i \in 1..Len(doc) : doc[i].k = "ld"}
ParseFails(t) == ~StrictParse(t)[1] /\ ~RepairParse(t)[1]
NoRecipeBefore(doc, j) ==
    \A h \in LdIndexes(doc) :
        h < j => ParseFails(doc[h].t) \/ BlockRecipeNodes(doc[h].t) = <<>>

\* C4: a script block that fails the strict parse and the repair parse adds
\* no Recipe node and does not end the scan: the Recipe nodes of every later
\* block that parses are found, and the first of them is the one used when
\* no earlier block has a Recipe node.
FailedBlockDoesNotStopScan ==
    ran # <<>> =>
        /\ \A k \in 1..Len(found) :
               \E j \in LdIndexes(html) :
                   ~ParseFails(html[j].t) /\ Occurs(found[k], BlockRecipeNodes(html[j].t))
        /\ \A i, j \in LdIndexes(html) :
               (i < j /\ ParseFails(html[i].t) /\ ~ParseFails(html[j].t)) =>
                   /\ \A k \in 1..Len(BlockRecipeNodes(html[j].t)) :
                          Occurs(BlockRecipeNodes(html[j].t)[k], found)
                   /\ (NoRecipeBefore(html, j) /\ BlockRecipeNodes(html[j].t) # <<>>) =>
                          /\ found[1] = BlockRecipeNodes(html[j].t)[1]
                          /\ (pc = "done" /\ StringEntries(found[1]) # <<>>) =>
                                 /\ Last(ran).strategy = "jsonld"
                                 /\ Len(result.ingredients) = Len(StringEntries(found[1]))

\* a block that cannot be parsed comes first, the recipe of a later block is used
RecipeAfterFailedBlockUsed ==
    /\ pc = "done"
    /\ Last(ran).strategy = "jsonld"
    /\ \E i, j \in LdIndexes(html) :
           /\ i < j
           /\ ParseFails(html[i].t)
           /\ NoRecipeBefore(html, j)
           /\ BlockRecipeNodes(html[j].t) # <<>>
           /\ found[1] = BlockRecipeNodes(html[j].t)[1]

\* C5: a call with a string that is no URL fails with "invalid recipe url"
\* and nothing else happens in it: no fetch is issued, no page is read, no
\* strategy runs; no other failure carries that message.
InvalidUrlFailsFast ==
    /\ url \in BadUrls =>
           /\ pc = "failed"
           /\ error = "invalid recipe url"
           /\ fetches = 0
           /\ html = <<>>
           /\ ran = <<>>
           /\ result = Null
    /\ error = "invalid recipe url" => url \in BadUrls

InvalidUrlRejected == url \in BadUrls /\ pc = "failed"

\* no ingredient entry in the structured data found, none yielded by a strategy
NoIngredientAnywhere ==
    /\ \A k \in 1..Len(found) :
           /\ Nullish(Get(found[k], "recipeIngredient"))
           /\ Nullish(Get(found[k], "ingredients"))
    /\ \A i \in 1..Len(ran) : ran[i].items = <<>>

\* C6: when the page is fetched and no strategy finds an ingredient, the call
\* returns a preview with an empty ingredient list, a title and the source
\* URL; it does not fail.
NothingFoundIsEmptyPreview ==
    (ran # <<>> /\ pc \in {"done", "failed"} /\ NoIngredientAnywhere) =>
        /\ pc = "done"
        /\ result.ingredients = <<>>
        /\ result.title # ""
        /\ result.sourceUrl = url

\* the page has no title: no og:title, title or h1 text, no title in the
\* structured data
NoTitleFound ==
    /\ \A i \in 1..Len(html) :
           /\ html[i].k = "og" => Trim(html[i].content) = ""
           /\ html[i].k = "title" => Trim(html[i].inner) = ""
           /\ (html[i].k = "h" /\ html[i].level = 1) => InnerText(html[i].inner) = ""
    /\ found # <<>> =>
           \A key \in {"name", "headline", "alternateName"} :
               ~IsStr(Get(found[1], key)) \/ Get(found[1], key).s = ""

\* C7: the title of a returned preview is never empty, on every return path;
\* when the page has no title it is the source URL or the sentinel.
TitleNeverEmpty ==
    pc = "done" =>
        /\ result.title # ""
        /\ NoTitleFound => result.title \in {url, TitleSentinel}

SentinelTitleReturned ==
    pc = "done" /\ NoTitleFound /\ result.title = TitleSentinel

\* C8: the servings of a returned preview are null or a positive integer.
ServingsPositiveInteger ==
    pc = "done" =>
        \/ result.servings = Null
        \/ /\ result.servings.k = "fin"
           /\ result.servings.e = 0
           /\ result.servings.m > 0

AmountOk(ingredient) ==
    \/ ingredient.amount = Null
    \/ ingredient.amount.k = "fin" /\ ingredient.amount.m >= 0

\* C9: the amount of every ingredient record is null or a finite number >= 0,
\* for the records of parseIngredientLine and of parseIngredientText and for
\* the ingredients of a returned preview.
AmountFiniteNonNegative ==
    /\ tokenized # Null => AmountOk(tokenized.ingredient)
    /\ pc = "done" =>
           \A i \in 1..Len(result.ingredients) : AmountOk(result.ingredients[i])

\* the positive numbers among the tokens, with their values
PositiveNumber ==
    [t \in {"2", "0.5", "1/2", "1e3"} |->
        CASE t = "2" -> Fin(2, 0) [] t = "0.5" -> Fin(5, 1)
          [] t = "1/2" -> Fin(5, 1) [] t = "1e3" -> Fin(1000, 0)]

\* C10: for a line of three or more tokens whose first token is a positive
\* number, parseIngredientLine gives that number as the amount, the second
\* token as the unit and the other tokens, joined by single spaces, as the name.
AmountUnitName ==
    (/\ tokenized # Null
     /\ tokenized.by = "parseIngredientLine"
     /\ Len(Split(rawLine)) >= 3
     /\ Split(rawLine)[1] \in DOMAIN PositiveNumber) =>
        /\ tokenized.ingredient.amount = PositiveNumber[Split(rawLine)[1]]
        /\ tokenized.ingredient.unit = Str(Split(rawLine)[2])
        /\ tokenized.ingredient.name =
               JoinSp(SubSeq(Split(rawLine), 3, Len(Split(rawLine))))

(***************************************************************************)
(* Properties of the tokenizers                                            *)
(***************************************************************************)
\* the tokens that are a decimal or a simple fraction, with their values
NumberToken ==
    [t \in {"2", "0.5", "1/2"} |->
        CASE t = "2" -> Fin(2, 0) [] t = "0.5" -> Fin(5, 1) [] t = "1/2" -> Fin(5, 1)]

\* C11: for a line of exactly two tokens whose first token is a number,
\* parseIngredientLine gives that number as the amount, no unit, and the
\* second token alone as the name.
NumberThenName ==
    (/\ tokenized # Null
     /\ tokenized.by = "parseIngredientLine"
     /\ Len(Split(rawLine)) = 2
     /\ Split(rawLine)[1] \in DOMAIN NumberToken) =>
        /\ tokenized.ingredient.amount = NumberToken[Split(rawLine)[1]]
        /\ tokenized.ingredient.unit = Null
        /\ tokenized.ingredient.name = Split(rawLine)[2]

\* C12: tokenizing the text rebuilt from a tokenized line (the parts present
\* among amount, unit and name, joined by single spaces) gives the same
\* amount, unit and name again.
TokenizerIdempotent ==
    retokenized # Null =>
        /\ retokenized.amount = tokenized.ingredient.amount
        /\ retokenized.unit = tokenized.ingredient.unit
        /\ retokenized.name = tokenized.ingredient.name

\* C13: when the first token, stripped of every character that is not a
\* digit, "." or "/", is a decimal or a simple fraction, parseIngredientLine
\* gives its value as the amount and consumes the token: the name is made of
\* the tokens after it (after the unit, when the line has three or more).
FractionIsAmount ==
    (/\ tokenized # Null
     /\ tokenized.by = "parseIngredientLine"
     /\ KeepNumeric(Split(rawLine)[1]) \in DOMAIN NumberToken) =>
        /\ tokenized.ingredient.amount = NumberToken[KeepNumeric(Split(rawLine)[1])]
        /\ tokenized.ingredient.name =
               JoinSp(SubSeq(Split(rawLine),
                             IF Len(Split(rawLine)) >= 3 THEN 3 ELSE 2,
                             Len(Split(rawLine))))

\* C14: for every non-empty line the record of parseIngredientText has the
\* amount, the unit and the name of the record of parseIngredientLine.
SameTokenizer ==
    (tokenized # Null /\ tokenized.by = "parseIngredientText" /\ rawLine # "") =>
        /\ tokenized.ingredient.amount = parseIngredientLine(rawLine).amount
        /\ tokenized.ingredient.unit = parseIngredientLine(rawLine).unit
        /\ tokenized.ingredient.name = parseIngredientLine(rawLine).name

(***************************************************************************)
(* Properties of the heading-section strategy                              *)
(***************************************************************************)
\* the headings of the fetched page that mention "ingredient"
IngredientHeadings ==
    {h \in 1..Len(html) :
        /\ html[h].k = "h"
        /\ Includes(ToLower(InnerText(html[h].inner)), "ingredient")}
\* the lists of the page located after every such heading, and before one
ListsAfterLast ==
    {j \in 1..Len(html) : html[j].k = "list" /\ \A h \in IngredientHeadings : h < j}
ListsBeforeLast ==
    {j \in 1..Len(html) : html[j].k = "list" /\ \E h \in IngredientHeadings : j < h}
\* the ingredient the heading-section strategy makes of a list item
SectionIngredient(j, m) == parseIngredientLine(InnerText(html[j].items[m]))

\* C15: the heading-section strategy yields nothing when no heading mentions
\* "ingredient"; every ingredient it yields comes from a list item located
\* after the last such heading, and no item of a list located before that
\* heading is among them.
OnlyAfterLastIngredientsHeading ==
    Len(ran) >= 2 =>
        /\ IngredientHeadings = {} => ran[2].items = <<>>
        /\ \A k \in 1..Len(ran[2].items) :
               \E j \in ListsAfterLast : \E m \in 1..Len(html[j].items) :
                   ran[2].items[k] = SectionIngredient(j, m)
        /\ \A j \in ListsBeforeLast : \A m \in 1..Len(html[j].items) :
               ~Occurs(SectionIngredient(j, m), ran[2].items)

\* two headings mention "ingredient", a list lies between them, and the
\* strategy yielded the items after the second
SecondIngredientsHeadingUsed ==
    /\ Len(ran) >= 2
    /\ Cardinality(IngredientHeadings) >= 2
    /\ ListsBeforeLast # {}
    /\ ran[2].items # <<>>

\* the stop headings located after the last heading that mentions "ingredient"
StopHeadings ==
    {s \in 1..Len(html) :
        /\ html[s].k = "h"
        /\ \A h \in IngredientHeadings : h < s
        /\ IsStopText(ToLower(InnerText(html[s].inner)))}

\* C16: the slice of the heading-section strategy ends at the first stop
\* heading after the chosen heading: no item of a list located after a stop
\* heading is yielded, and every item before the first stop heading (all the
\* items to the end of the page when there is none) is yielded unless it is
\* empty or removed by the noise filter.
SliceEndsAtFirstStopHeading ==
    (Len(ran) >= 2 /\ IngredientHeadings # {}) =>
        \A j \in ListsAfterLast : \A m \in 1..Len(html[j].items) :
            IF \E s \in StopHeadings : s < j
            THEN ~Occurs(SectionIngredient(j, m), ran[2].items)
            ELSE (InnerText(html[j].items[m]) # "" /\ KeepLine(InnerText(html[j].items[m])))
                     => Occurs(SectionIngredient(j, m), ran[2].items)

\* items were yielded from before the first of two stop headings, and lists
\* lie after each of them
StoppedAtFirstOfTwoHeadings ==
    /\ Len(ran) >= 2
    /\ ran[2].items # <<>>
    /\ Cardinality(StopHeadings) >= 2
    /\ \A s \in StopHeadings : \E j \in ListsAfterLast : s < j

(***************************************************************************)
(* Properties of one extraction call, continued                            *)
(***************************************************************************)
\* C17: no ingredient of a returned preview is made of the list item
\* "Per serving: 320 calories", whichever strategy yielded the ingredients.
NutritionLineNeverReturned ==
    pc = "done" =>
        \A i \in 1..Len(result.ingredients) :
            result.ingredients[i].name # "Per serving: 320 calories"

\* the script blocks of the fetched page made of two JSON objects written
\* back to back, with nothing or white space between them
BackToBackBlocks ==
    {j \in LdIndexes(html) :
        /\ Len(html[j].t.chunks) = 2
        /\ IsObj(html[j].t.chunks[1]) /\ IsObj(html[j].t.chunks[2])
        /\ html[j].t.seps[1] \in {"", " "}}

\* C18: a script block of two objects written back to back fails the strict
\* parse, the repair parse gives the two objects in order, and the Recipe
\* objects of both are among the Recipe nodes found.
BackToBackObjectsRecovered ==
    ran # <<>> =>
        \A j \in BackToBackBlocks :
            /\ ~StrictParse(html[j].t)[1]
            /\ RepairParse(html[j].t) = <<TRUE, Arr(html[j].t.chunks)>>
            /\ \A c \in 1..2 :
                   \A k \in 1..Len(findRecipeNodes(html[j].t.chunks[c])) :
                       Occurs(findRecipeNodes(html[j].t.chunks[c])[k], found)

\* the recipe used comes from a block of two objects written back to back
BackToBackRecipeUsed ==
    /\ pc = "done"
    /\ Last(ran).strategy = "jsonld"
    /\ \E j \in BackToBackBlocks :
           /\ NoRecipeBefore(html, j)
           /\ BlockRecipeNodes(html[j].t) # <<>>
           /\ found[1] = BlockRecipeNodes(html[j].t)[1]

\* the title of the first Recipe node found: name, else headline, else
\* alternateName, decoded
StructuredTitle ==
    LET Title(v) == IF IsStr(v) THEN decodeHtmlEntities(v.s) ELSE ""
    IN  Title(Coalesce(Get(found[1], "name"),
              Coalesce(Get(found[1], "headline"),
              Coalesce(Get(found[1], "alternateName"), Str("")))))

\* C20: when the structured data yielded the ingredients and its title is
\* not empty, the returned title is that title, for every URL.
StructuredTitleKept ==
    (pc = "done" /\ Last(ran).strategy = "jsonld" /\ StructuredTitle # "") =>
        result.title = StructuredTitle

NoiseLine(lower) ==
    \/ Includes(lower, "fat") /\ Includes(lower, "protein")
    \/ Includes(lower, "nutrition information")
    \/ Includes(lower, "calories")
    \/ StartsWith(lower, "per serving")
    \/ StartsWith(lower, "note:")

\* C21: no list item whose text contains both "fat" and "protein", or
\* contains "nutrition information" or "calories", or starts with
\* "per serving" or "note:", is among the ingredients the heading-section
\* strategy yields.
NoiseLinesRemoved ==
    Len(ran) >= 2 =>
        \A j \in 1..Len(html) :
            html[j].k = "list" =>
                \A m \in 1..Len(html[j].items) :
                    NoiseLine(ToLower(InnerText(html[j].items[m]))) =>
                        ~Occurs(SectionIngredient(j, m), ran[2].items)

\* the value of the first of the given keys that the first Recipe node found
\* holds, null when it holds none of them
FirstField(keys) ==
    LET Held == {i \in 1..Len(keys) : ~Nullish(Get(found[1], keys[i]))}
    IN  IF Held = {} THEN Null ELSE Get(found[1], keys[MinOf(Held)])

\* the script blocks of the fetched page that hold a Recipe object
RecipeBlocks ==
    {j \in LdIndexes(html) : ~ParseFails(html[j].t) /\ BlockRecipeNodes(html[j].t) # <<>>}

\* C22: when the page holds several Recipe objects, no error is raised, the
\* first object found is the first one in document order (it lies in the
\* first block that holds one and is enclosed in no other Recipe object of
\* the page), every ingredient the structured-data strategy yields is the
\* tokenization of an ingredient entry of that object, and when the strategy
\* wins, the title and the servings that object gives are the ones returned.
FirstRecipeObjectWins ==
    (ran # <<>> /\ Len(found) >= 2) =>
        /\ pc # "failed"
        /\ Occurs(found[1], BlockRecipeNodes(html[MinOf(RecipeBlocks)].t))
        /\ \A k \in 2..Len(found) :
               found[k] # found[1] => ~Occurs(found[1], findRecipeNodes(found[k]))
        /\ \A i \in 1..Len(ran[1].items) :
               \E key \in {"recipeIngredient", "ingredients"} :
                   /\ IsArr(Get(found[1], key))
                   /\ \E m \in 1..Len(Get(found[1], key).a) :
                          ran[1].items[i] =
                              parseIngredientLine(
                                  IngredientEntryText(Get(found[1], key).a[m]))
        /\ (pc = "done" /\ Last(ran).strategy = "jsonld") =>
               /\ StructuredTitle # "" => result.title = StructuredTitle
               /\ extractServings(FirstField(<<"recipeYield", "recipeServings",
                                               "yield">>)) # Null =>
                      result.servings =
                          extractServings(FirstField(<<"recipeYield", "recipeServings",
                                                       "yield">>))

\* C23: when a tuned rule has run, it was given the page, the source URL and
\* the fallback title and servings of the generic passes, and the call
\* returns what the rule made of them, unchanged.
TunedRuleGivenFallbacks ==
    (pc = "done" /\ Occurs(Last(ran).strategy, TunedDomains)) =>
        /\ Last(ran).given = <<html, url, OrElse(genericParsed.title, TitleSentinel),
                               genericParsed.servings>>
        /\ result = RunRule(TunedRule(Hostname(url)), html, url,
                            OrElse(genericParsed.title, TitleSentinel),
                            genericParsed.servings)

\* the positions of ran at which a tuned rule ran
TunedRuns == {k \in 1..Len(ran) : Occurs(ran[k].strategy, TunedDomains)}

\* C24: a tuned rule runs only after the structured data and the heading
\* section both yielded no ingredient; what it returns ends the call, also
\* when it is an empty list: nothing runs after it, the final scan never runs
\* in a call in which a rule ran, and at most one rule runs in a call.
TunedRuleIsFinal ==
    /\ Cardinality(TunedRuns) <= 1
    /\ \A k \in TunedRuns :
           /\ k = 3 /\ Len(ran) = 3
           /\ ran[1].strategy = "jsonld" /\ ran[1].items = <<>>
           /\ ran[2].strategy = "section" /\ ran[2].items = <<>>
           /\ pc = "done"
           /\ result.ingredients = ran[k].items
    /\ TunedRuns # {} => ~\E k \in 1..Len(ran) : ran[k].strategy = "final"

\* a tuned rule ran, found no ingredient, and the call returned its empty list
EmptyRuleResultReturned ==
    /\ pc = "done"
    /\ TunedRuns # {}
    /\ result.ingredients = <<>>
    /\ \E j \in 1..Len(html) : html[j].k = "list"

\* the title parseRecipeHtml detected before the retitling: the structured one
\* when the structured data was used, else the title of the markup, else the
\* URL
DetectedTitle ==
    IF Last(ran).strategy = "jsonld" /\ StructuredTitle # "" THEN StructuredTitle
    ELSE OrElse(extractTitleFromHtml(html), url)

\* the first-level headings of the fetched page whose text is not the banner
OtherH1 ==
    {j \in 1..Len(html) :
        /\ html[j].k = "h" /\ html[j].level = 1
        /\ InnerText(html[j].inner) # ""
        /\ ~Includes(ToLower(InnerText(html[j].inner)),
                     "get notified about new recipes")}

\* C25: the title of the generic result is the text of the first h1 that is
\* not the banner when the domain is joshuaweissman.com, the detected title
\* is the banner and such an h1 exists; in every other case it is the
\* detected title, unchanged.
NewsletterRetitling ==
    genericParsed # Null =>
        genericParsed.title =
            IF /\ DomainOf(url) = "joshuaweissman.com"
               /\ Includes(ToLower(DetectedTitle), "get notified about new recipes")
               /\ OtherH1 # {}
            THEN InnerText(html[MinOf(OtherH1)].inner)
            ELSE DetectedTitle

\* the first Recipe node found has an ingredient field that is populated:
\* recipeIngredient or ingredients holds a string, or an object with a text
\* or a name that is not empty
FirstRecipePopulated ==
    /\ found # <<>>
    /\ \E key \in {"recipeIngredient", "ingredients"} :
           /\ IsArr(Get(found[1], key))
           /\ \E m \in 1..Len(Get(found[1], key).a) :
                  \/ IsStr(Get(found[1], key).a[m])
                  \/ IngredientEntryText(Get(found[1], key).a[m]) # ""

\* C26: in a call that does not fail, the structured-data strategy yields no
\* ingredient exactly when no Recipe object is found or the first one has no
\* populated ingredient field, recipeIngredient or ingredients.
StructuredIngredientsFound ==
    (ran # <<>> /\ pc # "failed") =>
        (ran[1].items = <<>> <=> ~FirstRecipePopulated)

(***************************************************************************)
(* Properties of POST /recipes                                             *)
(***************************************************************************)
Sent(status) == \E k \in 1..Len(request.responses) : request.responses[k] = status
Issued(sql) == \E k \in 1..Len(request.log) : request.log[k] = sql
Failed(i) == i <= Len(request.results) /\ ~request.results[i]

\* C27: POST /recipes is all-or-nothing.  Every statement is issued on the
\* one client the request acquired, before that client is released; a 201
\* response has been sent only when BEGIN, the recipe insert, one pair of
\* inserts for every named ingredient and COMMIT were issued in this order
\* and all of them succeeded; and when a statement before COMMIT has failed,
\* ROLLBACK is the statement issued next, COMMIT is never issued and no 201
\* response is sent.
AllOrNothing ==
    LET log == request.log
        NamedCount == Cardinality({i \in 1..Len(request.ingredients) :
                                      Named(request.ingredients[i])})
    IN  /\ request.acquired <= 1
        /\ log # <<>> => request.acquired = 1
        /\ Len(log) > Len(request.results) => request.released = 0
        /\ Sent(201) =>
              /\ Len(log) = 3 + 2 * NamedCount
              /\ log[1] = "BEGIN"
              /\ log[2] = "INSERT recipes"
              /\ \A i \in 1..NamedCount :
                    /\ log[2 * i + 1] = "INSERT ingredients"
                    /\ log[2 * i + 2] = "INSERT recipe_ingredients"
              /\ log[Len(log)] = "COMMIT"
              /\ \A i \in 1..Len(log) : i <= Len(request.results) /\ request.results[i]
        /\ \A i \in 1..Len(log) :
              Failed(i) /\ log[i] \notin {"COMMIT", "ROLLBACK"} =>
                  /\ log[i + 1] = "ROLLBACK"
                  /\ ~Issued("COMMIT")
                  /\ ~Sent(201)

\* an insert into recipe_ingredients failed, the transaction was rolled back
\* and the request was answered with 500
InsertFailedAndRolledBack ==
    /\ request.pc = "done"
    /\ \E i \in 1..Len(request.log) :
          request.log[i] = "INSERT recipe_ingredients" /\ Failed(i)
    /\ Issued("ROLLBACK")
    /\ request.responses = <<500>>

\* C28: a request is answered at most once and its client is released at
\* most once; when the handling of a request has come to its end, exactly
\* one response (503, 400, 201 or 500) has been sent and the client, if one
\* was acquired, has been released.
AnsweredOnceReleasedOnce ==
    /\ Len(request.responses) <= 1
    /\ request.released <= request.acquired
    /\ request.pc = "done" =>
          /\ Len(request.responses) = 1
          /\ request.responses[1] \in {503, 400, 201, 500}
          /\ request.released = request.acquired

(***************************************************************************)
(* Properties of ImportRecipePage                                          *)
(***************************************************************************)
NonBlank(text) == text # "" /\ Trim(text) = text

\* the payload of the createRecipe call in flight is complete
PayloadComplete ==
    importPage.pending # Null =>
        /\ NonBlank(importPage.pending.title)
        /\ NonBlank(importPage.pending.sourceUrl)
        /\ Len(importPage.pending.ingredients) >= 1
        /\ \A n \in 1..Len(importPage.pending.ingredients) :
              NonBlank(importPage.pending.ingredients[n].name)

\* the step in which the createRecipe call in flight settles
SaveSettles == importPage.pending # Null /\ importPage'.pending = Null

\* C29: after any sequence of parse, add-row, remove-row, edit-field and
\* save actions, createRecipe is called only with a title and a url that are
\* trimmed and not empty and with at least one ingredient, every ingredient
\* having a trimmed name that is not empty; isSaving is true exactly while
\* the call is in flight; the step in which a save fails leaves the
\* ingredient rows as they are and the step in which a save succeeds leaves
\* no rows.
SaveIsGuarded ==
    /\ [](PayloadComplete /\ (importPage.isSaving <=> importPage.pending # Null))
    /\ [][SaveSettles =>
             /\ ~importPage'.isSaving
             /\ IF importPage'.successMessage = "saved"
                THEN importPage'.ingredientRows = <<>>
                ELSE /\ importPage'.saveErrorMessage = "failed"
                     /\ importPage'.ingredientRows = importPage.ingredientRows]_vars

\* a save has failed and the rows, one of them without a name, are still there
FailedSaveKeptRows ==
    /\ importPage.saveErrorMessage = "failed"
    /\ ~importPage.isSaving
    /\ \E n \in 1..Len(importPage.ingredientRows) :
          Trim(importPage.ingredientRows[n].name) = ""
    /\ \E n \in 1..Len(importPage.ingredientRows) :
          Trim(importPage.ingredientRows[n].name) # ""

(***************************************************************************)
(* Properties of RecipesPage                                               *)
(***************************************************************************)
\* the details of the recipe are cached without error
CachedDetails(recipeId) ==
    /\ recipesPage.detailsById[recipeId] # Undef
    /\ recipesPage.detailsById[recipeId].recipe # Null
    /\ recipesPage.detailsById[recipeId].errorMessage = Null

\* C30: for any sequence of expand and collapse clicks interleaved with
\* fetch completions, at most one details fetch is in flight for a recipe
\* id, and none is in flight for an id whose details are cached without
\* error, so that no error result can arrive for a loaded recipe.
DetailFetchesNeverOverlap ==
    \A recipeId \in RecipeIds :
        /\ recipesPage.inFlight[recipeId] <= 1
        /\ CachedDetails(recipeId) => recipesPage.inFlight[recipeId] = 0
====
